---- MODULE Spec2Model ----
(***************************************************************************)
(* A model of the hecto editor: the line buffer (Document over Rows), its  *)
(* persistence (open/save on a small file system) and the modal editing    *)
(* session with its undo/redo version list (Editor).                       *)
(*                                                                         *)
(* A Row is a sequence of graphemes; a grapheme is a one-character string  *)
(* ("E" stands for a two-byte grapheme such as U+00E9, "CR" for a carriage *)
(* return kept inside a line).  Indices follow the code: positions and     *)
(* version_index are 0-based, TLA+ sequences are 1-based.                  *)
(***************************************************************************)
EXTENDS Integers, Sequences, FiniteSets, TLC

VARIABLES
    document,         \* Editor.document / the Document under test
    cursor_position,  \* Editor.cursor_position
    offset,           \* Editor.offset
    mode,             \* Editor.mode
    versions,         \* Editor.versions
    version_index,    \* Editor.version_index
    has_saved,        \* Editor.has_saved
    clipboard,        \* Editor.clipboard
    status_message,   \* Editor.status_message (its text)
    term_size,        \* Terminal.size
    hist,             \* history of the session: what the last events did
    dop,              \* the last Document operation applied and its result
    fs,               \* the file system: path -> bytes or NoFile
    io                \* the position of Document::open / Document::save

vars == <<document, cursor_position, offset, mode, versions, version_index,
          has_saved, clipboard, status_message, term_size, hist, dop, fs, io>>

edvars == <<cursor_position, offset, mode, versions, version_index,
            has_saved, clipboard, status_message, term_size, hist>>

(***************************************************************************)
(* Bounds of the model.                                                    *)
(***************************************************************************)
MaxRows == 2      \* rows of a Document drawn as an input
MaxLen == 2       \* graphemes of a Row drawn as an input
MaxKeys == 5      \* key events of one editing session
MaxFileLen == 3   \* bytes of a file drawn as an input

Min(a, b) == IF a < b THEN a ELSE b
Max(a, b) == IF a > b THEN a ELSE b
\* usize::saturating_sub
SatSub(a, b) == IF a > b THEN a - b ELSE 0

(***************************************************************************)
(* Row (src/row.rs is not part of the sources; modelled from the           *)
(* specification, section 4.1).                                            *)
(***************************************************************************)
RowLen(row) == Len(row)

\* Row::insert(x, ch): x in 0..=length; subsequent graphemes shift right.
RowInsert(row, x, c) ==
    IF x >= Len(row) THEN Append(row, c)
    ELSE SubSeq(row, 1, x) \o <<c>> \o SubSeq(row, x + 1, Len(row))

\* Row::delete(x) -> removed_count: no-op (0) if x >= length.
RowDelete(row, x) ==
    IF x >= Len(row) THEN [row |-> row, deleted |-> 0]
    ELSE [row |-> SubSeq(row, 1, x) \o SubSeq(row, x + 2, Len(row)), deleted |-> 1]

\* Row::split(x): self keeps [0,x), the new Row holds [x,length).
RowSplit(row, x) ==
    [left |-> SubSeq(row, 1, Min(x, Len(row))),
     right |-> SubSeq(row, Min(x, Len(row)) + 1, Len(row))]

\* Row::append(other)
RowAppend(row, other) == row \o other

(***************************************************************************)
(* Document (src/src/document.rs).                                         *)
(***************************************************************************)
NoName == "none"

\* Document::default()
DefaultDocument == [rows |-> <<>>, file_name |-> NoName, dirty |-> FALSE]

\* impl Clone for Document: the clone is not dirty.
CloneDocument(doc) == [doc EXCEPT !.dirty = FALSE]

\* Document::len
DocLen(doc) == Len(doc.rows)

\* Document::row(index): is there a row?
HasRow(doc, y) == y < Len(doc.rows)

\* the length of row y, 0 where there is no row (the callers' unwrap-or-0)
RowLenAt(doc, y) == IF HasRow(doc, y) THEN RowLen(doc.rows[y + 1]) ELSE 0

InsertAt(s, i, e) == SubSeq(s, 1, i) \o <<e>> \o SubSeq(s, i + 1, Len(s))
RemoveAt(s, i) == SubSeq(s, 1, i) \o SubSeq(s, i + 2, Len(s))

\* a faulty insert_newline: the split-off row goes above row y
InsertNewlineAbove(doc, at) ==
    IF at.y > Len(doc.rows) THEN doc
    ELSE IF at.y = Len(doc.rows) THEN [doc EXCEPT !.rows = Append(@, <<>>)]
    ELSE LET sp == RowSplit(doc.rows[at.y + 1], at.x)
         IN [doc EXCEPT !.dirty = TRUE,
                        !.rows = InsertAt([@ EXCEPT ![at.y + 1] = sp.left], at.y, sp.right)]

\* Document::insert_newline
InsertNewline(doc, at) ==
    IF at.y > Len(doc.rows) THEN doc
    ELSE IF at.y = Len(doc.rows) THEN [doc EXCEPT !.rows = Append(@, <<>>)]
    ELSE LET sp == RowSplit(doc.rows[at.y + 1], at.x)
         IN [doc EXCEPT !.dirty = TRUE,
                        !.rows = InsertAt([@ EXCEPT ![at.y + 1] = sp.left], at.y + 1, sp.right)]

\* Document::insert
Insert(doc, at, c) ==
    IF at.y > Len(doc.rows) THEN doc
    ELSE LET d == [doc EXCEPT !.dirty = TRUE]
         IN IF c = "\n" THEN InsertNewline(d, at)
            ELSE IF at.y = Len(d.rows)
                 THEN [d EXCEPT !.rows = Append(@, RowInsert(<<>>, 0, c))]
                 ELSE [d EXCEPT !.rows[at.y + 1] = RowInsert(@, at.x, c)]

\* Document::insert_line
InsertLine(doc, y, line) ==
    IF y > Len(doc.rows) THEN doc
    ELSE [doc EXCEPT !.dirty = TRUE, !.rows = InsertAt(@, y, line)]

\* a faulty delete: the next row is joined whatever x is
DeleteJoinsAlways(doc, at) ==
    IF at.y >= Len(doc.rows) THEN [doc |-> doc, deleted |-> 0]
    ELSE IF at.y + 1 < Len(doc.rows)
         THEN [doc |-> [doc EXCEPT !.dirty = TRUE,
                                   !.rows = RemoveAt([@ EXCEPT ![at.y + 1] =
                                                RowAppend(@, doc.rows[at.y + 2])], at.y + 1)],
               deleted |-> 0]
         ELSE LET rd == RowDelete(doc.rows[at.y + 1], at.x)
              IN [doc |-> [doc EXCEPT !.dirty = TRUE, !.rows[at.y + 1] = rd.row],
                  deleted |-> rd.deleted]

\* Document::delete -> [doc, deleted]
Delete(doc, at) ==
    IF at.y >= Len(doc.rows) THEN [doc |-> doc, deleted |-> 0]
    ELSE IF at.x = RowLen(doc.rows[at.y + 1]) /\ at.y + 1 < Len(doc.rows)
         THEN [doc |-> [doc EXCEPT !.dirty = TRUE,
                                   !.rows = RemoveAt([@ EXCEPT ![at.y + 1] =
                                                RowAppend(@, doc.rows[at.y + 2])], at.y + 1)],
               deleted |-> 0]
         ELSE LET rd == RowDelete(doc.rows[at.y + 1], at.x)
              IN [doc |-> [doc EXCEPT !.dirty = TRUE, !.rows[at.y + 1] = rd.row],
                  deleted |-> rd.deleted]

\* Document::replace: delete, then insert at the same position.
Replace(doc, at, c) == Insert(Delete(doc, at).doc, at, c)

\* Document::delete_line: nothing for y > len; for y = len the splice y..=y
\* is out of range and the call panics (DeleteLinePanics)
DeleteLinePanics(doc, y) == y = Len(doc.rows)
DeleteLine(doc, y) ==
    IF y >= Len(doc.rows) THEN doc
    ELSE [doc EXCEPT !.dirty = TRUE, !.rows = RemoveAt(@, y)]

(***************************************************************************)
(* The Document operations as pure functions: the inputs are drawn from    *)
(* bounded sets and each action applies one operation once.                *)
(***************************************************************************)
Chars == {"a", "b"}

RECURSIVE SeqsUpTo(_, _)
\* all sequences over S of length <= n
SeqsUpTo(S, n) ==
    IF n = 0 THEN {<<>>}
    ELSE LET shorter == SeqsUpTo(S, n - 1)
         IN shorter \cup {Append(s, e) : s \in {t \in shorter : Len(t) = n - 1}, e \in S}

InputRows == SeqsUpTo(Chars, MaxLen)
InputDocs == SeqsUpTo(InputRows, MaxRows)
\* positions on, just past and beyond the buffer
InputPositions == [x : 0..(MaxLen + 1), y : 0..(MaxRows + 1)]

NoOp == [op |-> "none", at |-> [x |-> 0, y |-> 0], c |-> "", pre |-> <<>>, deleted |-> 0,
         panicked |-> FALSE]

\* Editor::default: clipboard None
NoClipboard == [some |-> FALSE, text |-> <<>>]

\* Editor::default() builds the session around a Document; the fields are
\* given with the Editor below.
Paths == {"f", "f.new", "f.old"}
\* a path holds no file, or a file of some bytes
NoFile == [exists |-> FALSE, bytes |-> <<>>]
File(b) == [exists |-> TRUE, bytes |-> b]
IdleFs == [p \in Paths |-> NoFile]
IdleIo == [pc |-> "idle", legacy_lines |-> FALSE, orig |-> NoFile, prev |-> NoFile,
           file_exists |-> FALSE, new_file_name |-> "f", i |-> 0, bytes_written |-> 0,
           row_dirty |-> <<>>, pre_dirty |-> FALSE, pre_row_dirty |-> <<>>,
           result |-> "none"]

DocInit ==
    /\ document \in {[rows |-> r, file_name |-> NoName, dirty |-> FALSE] : r \in InputDocs}
    /\ dop = NoOp
    /\ cursor_position = [x |-> 0, y |-> 0, max_x |-> 0]
    /\ offset = [x |-> 0, y |-> 0]
    /\ mode = "Normal"
    /\ versions = <<>>
    /\ version_index = 0
    /\ has_saved = FALSE
    /\ clipboard = NoClipboard
    /\ status_message = ""
    /\ term_size = [width |-> 0, height |-> 0]
    /\ hist = [trail |-> "none"]
    /\ fs = IdleFs
    /\ io = IdleIo

\* document.insert(at, c)
ApplyInsert ==
    /\ dop.op = "none"
    /\ \E at \in InputPositions, c \in Chars \cup {"\n"} :
          /\ document' = Insert(document, at, c)
          /\ dop' = [op |-> "insert", at |-> at, c |-> c, pre |-> document.rows, deleted |-> 0,
                     panicked |-> FALSE]
    /\ UNCHANGED <<edvars, fs, io>>

\* document.delete(at)
ApplyDelete ==
    /\ dop.op = "none"
    /\ \E at \in InputPositions :
          LET r == Delete(document, at)
          IN /\ document' = r.doc
             /\ dop' = [op |-> "delete", at |-> at, c |-> "", pre |-> document.rows,
                        deleted |-> r.deleted, panicked |-> FALSE]
    /\ UNCHANGED <<edvars, fs, io>>

\* the lines given to insert_line
InputLines == {<<>>, <<"b">>}

\* document.insert_line(y, line)
ApplyInsertLine ==
    /\ dop.op = "none"
    /\ \E y \in 0..(MaxRows + 1), line \in InputLines :
          /\ document' = InsertLine(document, y, line)
          /\ dop' = [op |-> "insert_line", at |-> [x |-> 0, y |-> y], c |-> "",
                     pre |-> document.rows, deleted |-> 0, panicked |-> FALSE]
    /\ UNCHANGED <<edvars, fs, io>>

\* document.delete_line(y)
ApplyDeleteLine ==
    /\ dop.op = "none"
    /\ \E y \in 0..(MaxRows + 1) :
          /\ document' = DeleteLine(document, y)
          /\ dop' = [op |-> "delete_line", at |-> [x |-> 0, y |-> y], c |-> "",
                     pre |-> document.rows, deleted |-> 0,
                     panicked |-> DeleteLinePanics(document, y)]
    /\ UNCHANGED <<edvars, fs, io>>

DocNext == ApplyInsert \/ ApplyDelete \/ ApplyInsertLine \/ ApplyDeleteLine

SpecDoc == DocInit /\ [][DocNext]_vars

\* C6: Document.insert((x, y), '\n') with y < len and x <= length of line y
\* adds exactly one line, line y keeps graphemes [0, x), the new line y+1
\* holds [x, length), every other line is unchanged and in order; with
\* y == len exactly one empty line is appended; with y > len nothing changes.
C6_NewlineSplits ==
    (dop.op = "insert" /\ dop.c = "\n") =>
        LET pre == dop.pre
            x == dop.at.x
            y == dop.at.y
            rows == document.rows
        IN /\ (y < Len(pre) /\ x <= Len(pre[y + 1])) =>
                 /\ Len(rows) = Len(pre) + 1
                 /\ rows[y + 1] = SubSeq(pre[y + 1], 1, x)
                 /\ rows[y + 2] = SubSeq(pre[y + 1], x + 1, Len(pre[y + 1]))
                 /\ \A i \in 1..Len(pre) :
                       /\ i < y + 1 => rows[i] = pre[i]
                       /\ i > y + 1 => rows[i + 1] = pre[i]
           /\ y = Len(pre) => rows = Append(pre, <<>>)
           /\ y > Len(pre) => rows = pre

\* a newline was inserted strictly inside a line that has lines after it
C6_Witness ==
    /\ dop.op = "insert" /\ dop.c = "\n"
    /\ dop.at.y + 1 < Len(dop.pre)
    /\ dop.at.x > 0 /\ dop.at.x < Len(dop.pre[dop.at.y + 1])

\* C7: Document.delete((x, y)): with x = length of line y and a line y+1 it
\* returns 0, the line count drops by one and line y becomes old line y
\* followed by old line y+1, the other lines unchanged; otherwise, with
\* y < len, the line count is unchanged, at most the grapheme at x is
\* removed from line y, and the number removed is returned.
C7_DeleteMergesOrRemovesOne ==
    (dop.op = "delete" /\ dop.at.y < Len(dop.pre)) =>
        LET pre == dop.pre
            x == dop.at.x
            y == dop.at.y
            rows == document.rows
        IN IF x = Len(pre[y + 1]) /\ y + 1 < Len(pre)
           THEN /\ dop.deleted = 0
                /\ Len(rows) = Len(pre) - 1
                /\ rows[y + 1] = pre[y + 1] \o pre[y + 2]
                /\ \A i \in 1..Len(rows) :
                      /\ i < y + 1 => rows[i] = pre[i]
                      /\ i > y + 1 => rows[i] = pre[i + 1]
           ELSE /\ Len(rows) = Len(pre)
                /\ \A i \in 1..Len(pre) : i # y + 1 => rows[i] = pre[i]
                /\ dop.deleted \in {0, 1}
                /\ Len(rows[y + 1]) = Len(pre[y + 1]) - dop.deleted
                /\ dop.deleted = 1 =>
                      rows[y + 1] = SubSeq(pre[y + 1], 1, x) \o
                                    SubSeq(pre[y + 1], x + 2, Len(pre[y + 1]))
                /\ dop.deleted = 0 => rows[y + 1] = pre[y + 1]

\* a delete at the end of a line joined the next line onto it
C7_Witness ==
    /\ dop.op = "delete"
    /\ dop.at.y + 1 < Len(dop.pre)
    /\ dop.at.x = Len(dop.pre[dop.at.y + 1])
    /\ Len(document.rows) = Len(dop.pre) - 1

\* C22: edits past the buffer bounds are silent no-ops and never fatal: for
\* every y >= number of lines, delete((x, y)) and delete_line(y) return
\* normally and leave the lines unchanged; for every y > number of lines,
\* insert and insert_line do the same.
C22_OutOfBoundsNoOps ==
    /\ (dop.op \in {"delete", "delete_line"} /\ dop.at.y >= Len(dop.pre)) =>
           ~dop.panicked /\ document.rows = dop.pre
    /\ (dop.op \in {"insert", "insert_line"} /\ dop.at.y > Len(dop.pre)) =>
           ~dop.panicked /\ document.rows = dop.pre

(***************************************************************************)
(* Persistence: Document::open and Document::save over a file system of    *)
(* three paths.  A file is a sequence of bytes; text is UTF-8.             *)
(***************************************************************************)
FileBytes == {"a", "LF", "CR", "C3", "A9"}
InputFiles == SeqsUpTo(FileBytes, MaxFileLen)

\* the UTF-8 bytes of one grapheme (str::as_bytes)
Utf8(c) ==
    CASE c = "E" -> <<"C3", "A9">>
      [] c = "\n" -> <<"LF">>
      [] OTHER -> <<c>>

RECURSIVE ValidUtf8(_)
\* fs::read_to_string fails on bytes that are not UTF-8
ValidUtf8(b) ==
    IF b = <<>> THEN TRUE
    ELSE IF Head(b) = "C3" THEN Len(b) >= 2 /\ b[2] = "A9" /\ ValidUtf8(SubSeq(b, 3, Len(b)))
    ELSE IF Head(b) = "A9" THEN FALSE
    ELSE ValidUtf8(Tail(b))

RECURSIVE Decode(_)
\* fs::read_to_string: the characters of valid UTF-8 bytes
Decode(b) ==
    IF b = <<>> THEN <<>>
    ELSE IF Head(b) = "C3" THEN <<"E">> \o Decode(SubSeq(b, 3, Len(b)))
    ELSE IF Head(b) = "LF" THEN <<"\n">> \o Decode(Tail(b))
    ELSE <<Head(b)>> \o Decode(Tail(b))

RECURSIVE SplitInclusive(_)
\* str::split_inclusive('\n'): the pieces, each ending with its '\n' if it has one
SplitInclusive(s) ==
    IF s = <<>> THEN <<>>
    ELSE LET nl == {k \in 1..Len(s) : s[k] = "\n"}
         IN IF nl = {} THEN <<s>>
            ELSE LET k == CHOOSE j \in nl : \A m \in nl : j <= m
                 IN <<SubSeq(s, 1, k)>> \o SplitInclusive(SubSeq(s, k + 1, Len(s)))

DropLast(s) == SubSeq(s, 1, Len(s) - 1)
EndsWith(s, c) == s # <<>> /\ s[Len(s)] = c

\* str::lines: lines end at "\n" or "\r\n"; the final terminator is optional.
\* A toolchain before the fix of the trailing bare CR (legacy) strips a final
\* "\r" from every line, the last unterminated one included.
Lines(s, legacy) ==
    LET pieces == SplitInclusive(s)
        strip(piece) ==
            IF EndsWith(piece, "\n")
            THEN IF EndsWith(DropLast(piece), "CR") THEN DropLast(DropLast(piece))
                 ELSE DropLast(piece)
            ELSE IF legacy /\ EndsWith(piece, "CR") THEN DropLast(piece)
            ELSE piece
    IN [i \in 1..Len(pieces) |-> strip(pieces[i])]

\* Row::from(text) (modelled from the specification: the text, by grapheme)
RowFrom(text) == text

\* Row::as_bytes
RECURSIVE RowAsBytes(_)
RowAsBytes(row) == IF row = <<>> THEN <<>> ELSE Utf8(Head(row)) \o RowAsBytes(Tail(row))

\* a faulty open: empty lines get no row
OpenRowsSkippingEmpty(contents, legacy) ==
    LET ls == Lines(contents, legacy)
    IN SelectSeq([i \in 1..Len(ls) |-> RowFrom(ls[i])], LAMBDA r : r # <<>>)

\* Document::open, the rows pushed for the lines of the contents
OpenRows(contents, legacy) ==
    LET ls == Lines(contents, legacy)
    IN [i \in 1..Len(ls) |-> RowFrom(ls[i])]

\* documents saved without having been read from the file
NewDocs == {<<>>, << <<"a">> >>, << <<"E", "a">>, <<>>, <<"a">> >>}

IoInit ==
    /\ document = DefaultDocument
    /\ dop = NoOp
    /\ cursor_position = [x |-> 0, y |-> 0, max_x |-> 0]
    /\ offset = [x |-> 0, y |-> 0]
    /\ mode = "Normal"
    /\ versions = <<>>
    /\ version_index = 0
    /\ has_saved = FALSE
    /\ clipboard = NoClipboard
    /\ status_message = ""
    /\ term_size = [width |-> 0, height |-> 0]
    /\ hist = [trail |-> "none"]
    /\ fs \in {[p \in Paths |-> IF p = "f" THEN f ELSE IF p = "f.new" THEN n ELSE o] :
                 f \in {File(b) : b \in InputFiles} \cup {NoFile},
                 n \in {NoFile, File(<<"a">>)}, o \in {NoFile, File(<<"a">>)}}
    /\ io \in {[IdleIo EXCEPT !.legacy_lines = l] : l \in BOOLEAN}

\* Document::open("f")
IoOpen ==
    /\ io.pc = "idle"
    /\ IF ~fs["f"].exists \/ ~ValidUtf8(fs["f"].bytes)
       THEN /\ io' = [io EXCEPT !.pc = "done", !.result = "open_err"]
            /\ UNCHANGED document
       ELSE /\ document' = [rows |-> OpenRows(Decode(fs["f"].bytes), io.legacy_lines),
                            file_name |-> "f", dirty |-> FALSE]
            /\ io' = [io EXCEPT !.pc = "opened", !.orig = fs["f"],
                                 !.row_dirty = [k \in 1..Len(OpenRows(Decode(fs["f"].bytes),
                                                                      io.legacy_lines))
                                                  |-> FALSE]]
    /\ UNCHANGED <<edvars, dop, fs>>

\* a buffer that was typed in or edited, named "f"; each line's dirty marker
\* is set or not
IoNew ==
    /\ io.pc = "idle"
    /\ \E r \in NewDocs :
          /\ document' = [rows |-> r, file_name |-> "f", dirty |-> TRUE]
          /\ \E m \in [1..Len(r) -> BOOLEAN] :
                io' = [io EXCEPT !.pc = "opened", !.row_dirty = m]
    /\ UNCHANGED <<edvars, dop, fs>>

\* Row::save of row k: its dirty marker is reset
RowSave(markers, k) == [markers EXCEPT ![k] = FALSE]

\* the state in which the row loop of save leaves: on to the renames, or done
AfterRows(st) == IF st.file_exists THEN "rename_old" ELSE "finish"

\* a faulty save: the existing file itself is created anew
SaveCreateInPlace ==
    /\ io.pc = "opened"
    /\ document.file_name # NoName
    /\ LET file_exists == fs["f"].exists
       IN /\ fs' = [fs EXCEPT !["f"] = File(<<>>)]
          /\ io' = [io EXCEPT !.pc = IF document.rows = <<>>
                                      THEN AfterRows([file_exists |-> file_exists])
                                      ELSE "write_row",
                               !.file_exists = file_exists,
                               !.new_file_name = "f",
                               !.prev = fs["f"], !.i = 0, !.bytes_written = 0,
                               !.pre_dirty = document.dirty,
                               !.pre_row_dirty = io.row_dirty]
    /\ UNCHANGED <<edvars, dop, document>>

\* Document::save, up to File::create
SaveCreate ==
    /\ io.pc = "opened"
    /\ document.file_name # NoName
    /\ LET file_exists == fs["f"].exists
           new_file_name == IF file_exists THEN "f.new" ELSE "f"
       IN /\ fs' = [fs EXCEPT ![new_file_name] = File(<<>>)]
          /\ io' = [io EXCEPT !.pc = IF document.rows = <<>>
                                      THEN AfterRows([file_exists |-> file_exists])
                                      ELSE "write_row",
                               !.file_exists = file_exists,
                               !.new_file_name = new_file_name,
                               !.prev = fs["f"], !.i = 0, !.bytes_written = 0,
                               !.pre_dirty = document.dirty,
                               !.pre_row_dirty = io.row_dirty]
    /\ UNCHANGED <<edvars, dop, document>>

\* file.write_all(row_bytes)
SaveWriteRow ==
    /\ io.pc = "write_row"
    /\ fs' = [fs EXCEPT ![io.new_file_name].bytes = @ \o RowAsBytes(document.rows[io.i + 1])]
    /\ io' = [io EXCEPT !.pc = "write_nl"]
    /\ UNCHANGED <<edvars, dop, document>>

\* a faulty save: "\r\n" after each row
SaveWriteNewlineCRLF ==
    /\ io.pc = "write_nl"
    /\ fs' = [fs EXCEPT ![io.new_file_name].bytes = @ \o <<"CR", "LF">>]
    /\ io' = [io EXCEPT !.i = @ + 1,
                         !.bytes_written = @ + Len(RowAsBytes(document.rows[io.i + 1])) + 1,
                         !.row_dirty = RowSave(@, io.i + 1),
                         !.pc = IF io.i + 1 < Len(document.rows) THEN "write_row"
                                ELSE AfterRows(io)]
    /\ UNCHANGED <<edvars, dop, document>>

\* file.write_all(b"\n"); bytes_written += row_bytes.len() + 1; row.save()
SaveWriteNewline ==
    /\ io.pc = "write_nl"
    /\ fs' = [fs EXCEPT ![io.new_file_name].bytes = @ \o <<"LF">>]
    /\ io' = [io EXCEPT !.i = @ + 1,
                         !.bytes_written = @ + Len(RowAsBytes(document.rows[io.i + 1])) + 1,
                         !.row_dirty = RowSave(@, io.i + 1),
                         !.pc = IF io.i + 1 < Len(document.rows) THEN "write_row"
                                ELSE AfterRows(io)]
    /\ UNCHANGED <<edvars, dop, document>>

\* fs::rename(file_name, &old_file_name)
SaveRenameToOld ==
    /\ io.pc = "rename_old"
    /\ fs' = [fs EXCEPT !["f.old"] = fs["f"], !["f"] = NoFile]
    /\ io' = [io EXCEPT !.pc = "rename_new"]
    /\ UNCHANGED <<edvars, dop, document>>

\* fs::rename(&new_file_name, file_name)
SaveRenameNew ==
    /\ io.pc = "rename_new"
    /\ fs' = [fs EXCEPT !["f"] = fs["f.new"], !["f.new"] = NoFile]
    /\ io' = [io EXCEPT !.pc = "remove_old"]
    /\ UNCHANGED <<edvars, dop, document>>

\* fs::remove_file(&old_file_name)
SaveRemoveOld ==
    /\ io.pc = "remove_old"
    /\ fs' = [fs EXCEPT !["f.old"] = NoFile]
    /\ io' = [io EXCEPT !.pc = "finish"]
    /\ UNCHANGED <<edvars, dop, document>>

\* self.dirty = false; Ok(bytes_written)
SaveFinish ==
    /\ io.pc = "finish"
    /\ document' = [document EXCEPT !.dirty = FALSE]
    /\ io' = [io EXCEPT !.pc = "done", !.result = "ok"]
    /\ UNCHANGED <<edvars, dop, fs>>

\* any step of save returns its io::Error (the ? operator); a failing
\* write_all may have written a part of its bytes
SaveError ==
    /\ io.pc \in {"opened", "write_row", "write_nl", "rename_old", "rename_new", "remove_old"}
    /\ document.file_name # NoName
    /\ io' = [io EXCEPT !.pc = "done", !.result = "err",
                         !.prev = IF io.pc = "opened" THEN fs["f"] ELSE @,
                         !.file_exists = IF io.pc = "opened" THEN fs["f"].exists ELSE @,
                         !.pre_dirty = IF io.pc = "opened" THEN document.dirty ELSE @,
                         !.pre_row_dirty = IF io.pc = "opened" THEN io.row_dirty ELSE @]
    /\ IF io.pc = "write_row"
       THEN \E k \in 0..Len(RowAsBytes(document.rows[io.i + 1])) :
               fs' = [fs EXCEPT ![io.new_file_name].bytes =
                         @ \o SubSeq(RowAsBytes(document.rows[io.i + 1]), 1, k)]
       ELSE fs' = fs
    /\ UNCHANGED <<edvars, dop, document>>

IoNext ==
    \/ IoOpen
    \/ IoNew
    \/ SaveCreate
    \/ SaveWriteRow
    \/ SaveWriteNewline
    \/ SaveRenameToOld
    \/ SaveRenameNew
    \/ SaveRemoveOld
    \/ SaveFinish
    \/ SaveError

SpecIo == IoInit /\ [][IoNext]_vars

RECURSIVE SavedBytes(_)
\* every line in document order, each followed by one "\n"
SavedBytes(rows) ==
    IF rows = <<>> THEN <<>>
    ELSE RowAsBytes(Head(rows)) \o <<"LF">> \o SavedBytes(Tail(rows))

RECURSIVE SumOfLineBytes(_)
\* the sum over the lines of (byte length + 1)
SumOfLineBytes(rows) ==
    IF rows = <<>> THEN 0
    ELSE Len(RowAsBytes(Head(rows))) + 1 + SumOfLineBytes(Tail(rows))

\* C8: saving over an existing file writes <path>.new completely, then
\* renames <path> to <path>.old, then <path>.new to <path>, then removes
\* <path>.old; the existing file is untouched until the new content is
\* complete, and wherever save stops a complete copy of the previous or of
\* the new content exists under one of the three paths.
C8_CrashSafeReplace ==
    io.file_exists =>
        LET new == File(SavedBytes(document.rows))
            prev == io.prev
        IN /\ io.pc \in {"write_row", "write_nl", "rename_old"} => fs["f"] = prev
           /\ io.pc = "rename_old" => fs["f.new"] = new
           /\ io.pc = "rename_new" => fs["f.old"] = prev /\ fs["f.new"] = new
           /\ io.pc = "remove_old" => fs["f"] = new /\ fs["f.old"] = prev
           /\ (io.pc = "finish" \/ io.result = "ok") => fs["f"] = new /\ ~fs["f.old"].exists
           /\ \E p \in Paths : fs[p] = prev \/ fs[p] = new

\* the old file has been moved aside and the new content, which differs
\* from it, waits under <path>.new
C8_Witness ==
    /\ io.pc = "rename_new"
    /\ io.file_exists
    /\ document.rows # <<>>
    /\ io.prev.bytes # SavedBytes(document.rows)
    /\ io.prev.bytes # <<>>

\* C9: a successful save leaves the lines in document order, each followed
\* by exactly one "\n", and returns the number of bytes written, the sum
\* over the lines of (byte length + 1).
C9_SavedBytesAndCount ==
    (io.pc = "done" /\ io.result = "ok") =>
        /\ fs["f"] = File(SavedBytes(document.rows))
        /\ io.bytes_written = SumOfLineBytes(document.rows)
        /\ io.bytes_written = Len(fs["f"].bytes)

\* a save of several lines, one of them holding a two-byte grapheme
C9_Witness ==
    /\ io.pc = "done" /\ io.result = "ok"
    /\ Len(document.rows) >= 2
    /\ \E i \in 1..Len(document.rows) : Len(RowAsBytes(document.rows[i])) > Len(document.rows[i])

\* C10 as claimed: for every file content, open followed at once by save
\* leaves a file whose sequence of lines is that of the original.
C10_RoundTripAnyContent ==
    (io.pc = "done" /\ io.result = "ok" /\ io.orig.exists) =>
        Lines(Decode(fs["f"].bytes), io.legacy_lines) =
            Lines(Decode(io.orig.bytes), io.legacy_lines)

\* C10 amended: the round trip reproduces the sequence of lines for every
\* file content none of whose lines, with its "\n" or "\r\n" terminator
\* removed, ends with a carriage return.
C10_RoundTripNoStrayCR ==
    (/\ io.pc = "done" /\ io.result = "ok" /\ io.orig.exists
     /\ \A i \in 1..Len(document.rows) : ~EndsWith(document.rows[i], "CR")) =>
        Lines(Decode(fs["f"].bytes), io.legacy_lines) =
            Lines(Decode(io.orig.bytes), io.legacy_lines)

\* a file with a "\r\n" terminator was opened and saved: its bytes changed
C10_Witness ==
    /\ io.pc = "done" /\ io.result = "ok" /\ io.orig.exists
    /\ \E k \in 1..(Len(io.orig.bytes) - 1) :
          io.orig.bytes[k] = "CR" /\ io.orig.bytes[k + 1] = "LF"
    /\ \A i \in 1..Len(document.rows) : ~EndsWith(document.rows[i], "CR")
    /\ document.rows # <<>>
    /\ fs["f"].bytes # io.orig.bytes

\* C11: when a step of save fails, the buffer's dirty flag and every line's
\* dirty marker are as they were before the call; when save succeeds, the
\* flag and every marker are reset.
C11_FailedSaveKeepsDirtyMarks ==
    /\ (io.pc = "done" /\ io.result = "err")
          => /\ document.dirty = io.pre_dirty
             /\ io.row_dirty = io.pre_row_dirty
    /\ (io.pc = "done" /\ io.result = "ok")
          => /\ ~document.dirty
             /\ \A k \in 1..Len(io.row_dirty) : ~io.row_dirty[k]

(***************************************************************************)
(* Document::find.  A position found is [some |-> TRUE, x, y]; None is     *)
(* NoPosition.  The search within one line is Row::find; that its backward *)
(* search looks at the matches that end at or before from_x (window), or   *)
(* at the matches that start at or before from_x, is left open: both are   *)
(* searched.                                                               *)
(***************************************************************************)
NoPosition == [some |-> FALSE, x |-> 0, y |-> 0]
SomePosition(x, y) == [some |-> TRUE, x |-> x, y |-> y]

\* query is at column x of row (columns count from 0)
OccursAt(row, query, x) ==
    /\ x + Len(query) <= Len(row)
    /\ SubSeq(row, x + 1, x + Len(query)) = query

\* the least, the greatest column of a non-empty set
Least(S) == CHOOSE x \in S : \A z \in S : x <= z
Greatest(S) == CHOOSE x \in S : \A z \in S : z <= x

\* the columns Row::find chooses from
FindColumns(row, query, at, direction, window) ==
    IF direction = "Forward"
    THEN {x \in at..Len(row) : OccursAt(row, query, x)}
    ELSE IF window
    THEN {x \in 0..at : at <= Len(row) /\ OccursAt(row, query, x) /\ x + Len(query) <= at}
    ELSE {x \in 0..Min(at, Len(row)) : OccursAt(row, query, x)}

\* a faulty Row::find: the forward search starts one column after from_x
RowFindFromNext(row, query, at, direction, window) ==
    IF FindColumns(row, query, IF direction = "Forward" THEN at + 1 ELSE at,
                   direction, window) = {}
    THEN NoPosition
    ELSE IF direction = "Forward"
    THEN SomePosition(Least(FindColumns(row, query, at + 1, direction, window)), 0)
    ELSE SomePosition(Greatest(FindColumns(row, query, at, direction, window)), 0)

\* Row::find(query, from_x, direction) -> Option<x>
RowFind(row, query, at, direction, window) ==
    IF FindColumns(row, query, at, direction, window) = {} THEN NoPosition
    ELSE IF direction = "Forward"
    THEN SomePosition(Least(FindColumns(row, query, at, direction, window)), 0)
    ELSE SomePosition(Greatest(FindColumns(row, query, at, direction, window)), 0)

\* the position the loop of find goes on from, after no match in row position.y
FindStep(doc, position, direction) ==
    IF direction = "Forward"
    THEN [x |-> 0, y |-> position.y + 1]
    ELSE [x |-> RowLenAt(doc, SatSub(position.y, 1)), y |-> SatSub(position.y, 1)]

RECURSIVE FindLoop(_, _, _, _, _, _)
\* the loop of find, with n turns left
FindLoop(doc, query, position, direction, window, n) ==
    IF n = 0 THEN NoPosition
    ELSE IF ~HasRow(doc, position.y) THEN NoPosition
    ELSE IF RowFind(doc.rows[position.y + 1], query, position.x, direction, window).some
    THEN SomePosition(RowFind(doc.rows[position.y + 1], query, position.x,
                              direction, window).x, position.y)
    ELSE FindLoop(doc, query, FindStep(doc, position, direction), direction, window, n - 1)

\* the first match, if any, else the second
OrElse(first, second) == IF first.some THEN first ELSE second

\* a faulty find: a search that found nothing goes on from the other end
FindWrapping(doc, query, at, direction, window) ==
    IF at.y >= DocLen(doc) THEN NoPosition
    ELSE IF direction = "Forward"
    THEN OrElse(FindLoop(doc, query, [x |-> at.x, y |-> at.y], direction, window,
                         DocLen(doc) - at.y),
                FindLoop(doc, query, [x |-> 0, y |-> 0], direction, window, DocLen(doc)))
    ELSE OrElse(FindLoop(doc, query, [x |-> at.x, y |-> at.y], direction, window, at.y + 1),
                FindLoop(doc, query, [x |-> RowLenAt(doc, DocLen(doc) - 1),
                                      y |-> DocLen(doc) - 1],
                         direction, window, DocLen(doc)))

\* Document::find(query, at, direction) -> Option<Position>
Find(doc, query, at, direction, window) ==
    IF at.y >= DocLen(doc) THEN NoPosition
    ELSE FindLoop(doc, query, [x |-> at.x, y |-> at.y], direction, window,
                  IF direction = "Forward" THEN DocLen(doc) - at.y ELSE (at.y + 1) - 0)

\* the queries searched for
InputQueries == {<<"a">>, <<"a", "b">>, <<"a", "a">>}
\* positions on, just past and beyond the lines
FindPositions == [x : 0..MaxLen, y : 0..MaxRows]
Directions == {"Forward", "Backward"}

NoFind == [op |-> "none", query |-> <<>>, at |-> [x |-> 0, y |-> 0],
           direction |-> "Forward", window |-> FALSE, found |-> NoPosition]

FindInit ==
    /\ document \in {[rows |-> r, file_name |-> NoName, dirty |-> FALSE] : r \in InputDocs}
    /\ dop \in {[NoFind EXCEPT !.query = q, !.at = at, !.direction = d, !.window = w] :
                  q \in InputQueries, at \in FindPositions, d \in Directions,
                  w \in BOOLEAN}
    /\ cursor_position = [x |-> 0, y |-> 0, max_x |-> 0]
    /\ offset = [x |-> 0, y |-> 0]
    /\ mode = "Normal"
    /\ versions = <<>>
    /\ version_index = 0
    /\ has_saved = FALSE
    /\ clipboard = NoClipboard
    /\ status_message = ""
    /\ term_size = [width |-> 0, height |-> 0]
    /\ hist = [trail |-> "none"]
    /\ fs = IdleFs
    /\ io = IdleIo

\* document.find(query, at, direction)
ApplyFind ==
    /\ dop.op = "none"
    /\ dop' = [dop EXCEPT !.op = "find",
                          !.found = Find(document, dop.query, dop.at, dop.direction,
                                         dop.window)]
    /\ UNCHANGED <<edvars, document, fs, io>>

FindNext == ApplyFind

SpecFind == FindInit /\ [][FindNext]_vars

\* the positions of the buffer at which query occurs
Occurrences(doc, query) ==
    {p \in [x : 0..MaxLen, y : 0..MaxRows] :
        HasRow(doc, p.y) /\ OccursAt(doc.rows[p.y + 1], query, p.x)}

\* position p comes before position q in the buffer
Before(p, q) == p.y < q.y \/ (p.y = q.y /\ p.x < q.x)

\* C12: find never wraps.  A forward search from (x, y) only returns a
\* position in rows y..len-1, in row y not before column x; a backward search
\* from (x, y) only returns a position in rows 0..y; what is returned is an
\* occurrence of the query, None is returned when the query does not occur
\* in that range, and None is returned when y >= len.
C12_FindNeverWraps ==
    dop.op = "find" =>
       /\ dop.at.y >= DocLen(document) => ~dop.found.some
       /\ dop.found.some =>
            /\ [x |-> dop.found.x, y |-> dop.found.y] \in Occurrences(document, dop.query)
            /\ IF dop.direction = "Forward"
               THEN /\ dop.at.y <= dop.found.y /\ dop.found.y <= DocLen(document) - 1
                    /\ dop.found.y = dop.at.y => dop.at.x <= dop.found.x
               ELSE dop.found.y <= dop.at.y
       /\ (/\ dop.direction = "Forward"
           /\ \A p \in Occurrences(document, dop.query) : Before(p, dop.at))
            => ~dop.found.some
       /\ (/\ dop.direction = "Backward"
           /\ \A p \in Occurrences(document, dop.query) : p.y > dop.at.y)
            => ~dop.found.some

\* a search that found nothing although the query occurs in the buffer, on
\* the side of the start the search does not look at
C12_Witness ==
    /\ dop.op = "find"
    /\ dop.at.y < DocLen(document)
    /\ ~dop.found.some
    /\ Occurrences(document, dop.query) # {}
    /\ dop.direction = "Forward"
    /\ \E p \in Occurrences(document, dop.query) : p.y < dop.at.y

\* C13: when the query occurs exactly once in the buffer, at p, a forward
\* search started at any position before p returns p, and a backward search
\* started just after the end of that match returns p.
C13_FindSymmetric ==
    (dop.op = "find" /\ Cardinality(Occurrences(document, dop.query)) = 1) =>
       \A p \in Occurrences(document, dop.query) :
          /\ (dop.direction = "Forward" /\ Before(dop.at, p))
               => dop.found = SomePosition(p.x, p.y)
          /\ (dop.direction = "Backward"
              /\ dop.at = [x |-> p.x + Len(dop.query), y |-> p.y])
               => dop.found = SomePosition(p.x, p.y)

\* the one occurrence, in a later row than the start, was found searching
\* forward
C13_Witness ==
    /\ dop.op = "find"
    /\ Cardinality(Occurrences(document, dop.query)) = 1
    /\ dop.direction = "Forward"
    /\ dop.found.some
    /\ dop.at.y < dop.found.y
    /\ dop.found.x = 0

(***************************************************************************)
(* Document::highlight, as Editor::refresh_screen calls it.  A line is     *)
(* made of "o" (the marker that opens a block comment), "c" (the marker    *)
(* that closes it) and "a" (anything else).  Row::highlight is the pass    *)
(* over one line: a line whose highlighted flag is set keeps what it has   *)
(* and gives the comment state it gave when it was computed; no word is    *)
(* searched for (highlighted_word is None outside the search prompt).      *)
(***************************************************************************)
RECURSIVE RowScan(_, _)
\* the comment state after the graphemes of row, entered in state flag
RowScan(row, flag) ==
    IF row = <<>> THEN flag
    ELSE RowScan(Tail(row), IF Head(row) = "o" THEN TRUE
                            ELSE IF Head(row) = "c" THEN FALSE
                            ELSE flag)

\* Row::highlight(opts, word, start_with_comment) -> bool
RowHighlight(row, is_highlighted, carried, start_with_comment) ==
    IF is_highlighted THEN carried ELSE RowScan(row, start_with_comment)

\* the rows' flags and the passes made, after the pass over row i
HlPass(st, i, start_with_comment, out) ==
    [st EXCEPT !.highlighted[i] = TRUE,
               !.carried[i] = out,
               !.passes = Append(@, [flag_in |-> start_with_comment, flag_out |-> out])]

RECURSIVE HighlightRowsAlone(_, _, _, _, _)
\* a faulty highlight: every line's pass is entered outside a comment
HighlightRowsAlone(rows, st, i, until, start_with_comment) ==
    IF i > until THEN st
    ELSE HighlightRowsAlone(rows,
             HlPass(st, i, start_with_comment,
                    RowHighlight(rows[i], st.highlighted[i], st.carried[i],
                                 start_with_comment)),
             i + 1, until, FALSE)

RECURSIVE HighlightRows(_, _, _, _, _)
\* for row in &mut self.rows[..until]: start_with_comment = row.highlight(..)
HighlightRows(rows, st, i, until, start_with_comment) ==
    IF i > until THEN st
    ELSE HighlightRows(rows,
             HlPass(st, i, start_with_comment,
                    RowHighlight(rows[i], st.highlighted[i], st.carried[i],
                                 start_with_comment)),
             i + 1, until,
             RowHighlight(rows[i], st.highlighted[i], st.carried[i], start_with_comment))

\* a faulty until: the whole buffer, whatever the viewport
HighlightUntilLen(doc, until) == DocLen(doc)

\* the until of Document::highlight(word, Some(until))
HighlightUntil(doc, until) == IF until + 1 < DocLen(doc) THEN until + 1 ELSE DocLen(doc)

\* Document::highlight(word, Some(until))
Highlight(doc, st, until) ==
    HighlightRows(doc.rows, [st EXCEPT !.passes = <<>>], 1, HighlightUntil(doc, until), FALSE)

\* a faulty unhighlight_rows: the row above the edit keeps its flag
UnhighlightRowsFromStart(flags, start, n) ==
    [k \in 1..n |-> IF k - 1 >= start THEN FALSE ELSE flags[k]]

\* Document::unhighlight_rows(start), for a buffer that has n rows after the
\* edit: the rows before start - 1 keep their flags
UnhighlightRows(flags, start, n) ==
    [k \in 1..n |-> IF k - 1 >= SatSub(start, 1) THEN FALSE ELSE flags[k]]

HlChars == {"o", "c"}
HlRows == {<<>>, <<"a">>, <<"o">>, <<"c">>}
HlDocs == SeqsUpTo(HlRows, MaxRows)
HlHeights == {1}
MaxEdits == 1     \* edits of the buffer between two highlight calls

\* no row is highlighted yet
NoHighlight(n) ==
    [op |-> "none", edits |-> 0, highlighted |-> [k \in 1..n |-> FALSE],
     carried |-> [k \in 1..n |-> FALSE], passes |-> <<>>,
     at_y |-> 0, pre |-> [k \in 1..n |-> FALSE]]

HlInit ==
    /\ document \in {[rows |-> r, file_name |-> NoName, dirty |-> FALSE] : r \in HlDocs}
    /\ dop = NoHighlight(Len(document.rows))
    /\ cursor_position = [x |-> 0, y |-> 0, max_x |-> 0]
    /\ offset = [x |-> 0, y |-> 0]
    /\ mode = "Normal"
    /\ versions = <<>>
    /\ version_index = 0
    /\ has_saved = FALSE
    /\ clipboard = NoClipboard
    /\ status_message = ""
    /\ term_size \in {[width |-> 8, height |-> h] : h \in HlHeights}
    /\ hist = [trail |-> "none"]
    /\ fs = IdleFs
    /\ io = IdleIo

\* refresh_screen, the viewport at some row of the buffer:
\* self.document.highlight(&self.highlighted_word, Some(offset.y + height))
HlRefresh ==
    /\ \E oy \in 0..DocLen(document) :
          /\ offset' = [x |-> 0, y |-> oy]
          /\ \E st \in {Highlight(document, dop, oy + term_size.height)} :
                dop' = [st EXCEPT !.op = "highlight", !.pre = dop.highlighted]
    /\ UNCHANGED <<document, cursor_position, mode, versions, version_index, has_saved,
                   clipboard, status_message, term_size, hist, fs, io>>

\* document.insert(at, c): the rows from at.y - 1 on are to be highlighted again
HlInsert ==
    /\ dop.edits < MaxEdits
    /\ \E at \in [x : 0..1, y : 0..DocLen(document)], c \in HlChars \cup {"\n"} :
          \E d \in {Insert(document, at, c)} :
             /\ DocLen(d) <= MaxRows + 1
             /\ document' = d
             /\ dop' = [dop EXCEPT !.op = "edit", !.edits = @ + 1,
                           !.at_y = at.y, !.pre = dop.highlighted \o <<FALSE>>,
                           !.highlighted = UnhighlightRows(dop.highlighted \o <<FALSE>>,
                                                           at.y, DocLen(d)),
                           !.carried = [k \in 1..DocLen(d) |->
                                           IF k <= Len(dop.carried) THEN dop.carried[k]
                                           ELSE FALSE]]
    /\ UNCHANGED <<edvars, fs, io>>

\* document.delete(at), at a row of the buffer
HlDelete ==
    /\ dop.edits < MaxEdits
    /\ \E at \in [x : 0..1, y : 0..(DocLen(document) - 1)] :
          \E d \in {Delete(document, at).doc} :
             /\ document' = d
             /\ dop' = [dop EXCEPT !.op = "edit", !.edits = @ + 1,
                           !.at_y = at.y, !.pre = dop.highlighted,
                           !.highlighted = UnhighlightRows(dop.highlighted, at.y, DocLen(d)),
                           !.carried = SubSeq(dop.carried, 1, DocLen(d))]
    /\ UNCHANGED <<edvars, fs, io>>

\* document.insert_line(y, line): the new row takes index y, the flags of the
\* rows move with their rows
HlInsertLine ==
    /\ dop.edits < MaxEdits
    /\ DocLen(document) <= MaxRows
    /\ \E y \in 0..DocLen(document), line \in {<<"o">>} :
          \E d \in {InsertLine(document, y, line)} :
             /\ document' = d
             /\ dop' = [dop EXCEPT !.op = "edit", !.edits = @ + 1,
                           !.at_y = y, !.pre = InsertAt(dop.highlighted, y, FALSE),
                           !.highlighted = UnhighlightRows(InsertAt(dop.highlighted, y, FALSE),
                                                           y, DocLen(d)),
                           !.carried = InsertAt(dop.carried, y, FALSE)]
    /\ UNCHANGED <<edvars, fs, io>>

\* document.delete_line(y), at a row of the buffer
HlDeleteLine ==
    /\ dop.edits < MaxEdits
    /\ \E y \in 0..(DocLen(document) - 1) :
          \E d \in {DeleteLine(document, y)} :
             /\ document' = d
             /\ dop' = [dop EXCEPT !.op = "edit", !.edits = @ + 1,
                           !.at_y = y, !.pre = RemoveAt(dop.highlighted, y),
                           !.highlighted = UnhighlightRows(RemoveAt(dop.highlighted, y),
                                                           y, DocLen(d)),
                           !.carried = RemoveAt(dop.carried, y)]
    /\ UNCHANGED <<edvars, fs, io>>

HlNext == HlRefresh \/ HlInsert \/ HlDelete \/ HlInsertLine \/ HlDeleteLine

SpecHl == HlInit /\ [][HlNext]_vars

RECURSIVE InCommentAfter(_, _)
\* row i of rows (counted from 1) ends inside a block comment that is not
\* closed, read from the first row of the buffer
InCommentAfter(rows, i) ==
    IF i = 0 THEN FALSE ELSE RowScan(rows[i], InCommentAfter(rows, i - 1))

\* C14: on every highlight call the comment state is threaded from line 0:
\* the flag passed into the pass of line i is the flag the pass of line i-1
\* returned (false for line 0), whatever the viewport offset; a line that
\* ends inside a block comment that is not closed reports so to the next
\* line, also when the lines before it are off-screen.
C14_CommentStateThreaded ==
    dop.op = "highlight" =>
       /\ Len(dop.passes) = HighlightUntil(document, offset.y + term_size.height)
       /\ \A i \in 1..Len(dop.passes) :
             /\ dop.passes[i].flag_in = IF i = 1 THEN FALSE ELSE dop.passes[i - 1].flag_out
             /\ dop.passes[i].flag_out = InCommentAfter(document.rows, i)

\* the viewport is below the line that opens a comment; the line after it is
\* highlighted inside the comment, after an edit
C14_Witness ==
    /\ dop.op = "highlight"
    /\ dop.edits > 0
    /\ offset.y >= 2
    /\ Len(dop.passes) >= 3
    /\ ~dop.passes[1].flag_in /\ dop.passes[1].flag_out
    /\ dop.passes[2].flag_in /\ dop.passes[2].flag_out
    /\ dop.passes[3].flag_in

\* C29 as stated: highlight(search_word, until) passes over exactly the lines
\* with index in [0, min(until, len)); no line with index >= until is passed
\* over by that call.
C29_HighlightBelowUntil ==
    dop.op = "highlight" =>
       Len(dop.passes) = Min(offset.y + term_size.height, DocLen(document))

\* C29, amended: highlight(search_word, until) passes over exactly the lines
\* with index in [0, min(until + 1, len)): the line at index until is passed
\* over too; the lines after it keep the highlight state they had.
C29_HighlightThroughUntil ==
    dop.op = "highlight" =>
       LET n == Min(offset.y + term_size.height + 1, DocLen(document))
       IN /\ Len(dop.passes) = n
          /\ \A k \in 1..DocLen(document) :
                IF k <= n THEN dop.highlighted[k]
                ELSE dop.highlighted[k] = dop.pre[k]

\* a highlight call that stops before the end of the buffer: the line at
\* index until was passed over, a line after it is left stale
C29_Witness ==
    /\ dop.op = "highlight"
    /\ dop.edits > 0
    /\ Len(dop.passes) = offset.y + term_size.height + 1
    /\ Len(dop.passes) < DocLen(document)
    /\ ~dop.highlighted[DocLen(document)]

\* C30: after insert, insert_line, delete or delete_line changes the buffer
\* at row y, every line with index >= y-1 (saturating at 0) is marked
\* highlight-stale and the highlight state of the lines with index < y-1 is
\* unchanged.
C30_InvalidationFromLineAbove ==
    dop.op = "edit" =>
       \A k \in 1..DocLen(document) :
          IF k - 1 >= SatSub(dop.at_y, 1) THEN ~dop.highlighted[k]
          ELSE dop.highlighted[k] = dop.pre[k]

\* an edit at row 2 of a highlighted buffer: row 0 keeps its state, row 1
\* (the line above the edit) is stale
C30_Witness ==
    /\ dop.op = "edit"
    /\ dop.at_y = 2
    /\ dop.pre[1] /\ dop.pre[2]
    /\ dop.highlighted[1] /\ ~dop.highlighted[2]

(***************************************************************************)
(* Editor (src/src/editor.rs).  An operator takes the Editor as a record   *)
(* e of its fields and gives the Editor after the call.  The field hist is *)
(* not a field of the code: it records, for the properties, what the       *)
(* events did (the checkpoint taken before an edit, the last commit).      *)
(***************************************************************************)
SpecialKeys == {"Esc", "Delete", "Backspace", "Up", "Down", "Left", "Right",
                "PageUp", "PageDown", "Home", "End", "CtrlR"}

DefaultCursor == [x |-> 0, y |-> 0, max_x |-> 0]

\* Row::contents, Row::indentation and str::trim (Row modelled from the
\* specification, section 4.1)
Whitespace == {" ", "\t", "CR"}
RowContents(row) == row
RECURSIVE Indentation(_)
Indentation(row) ==
    IF row = <<>> \/ Head(row) \notin Whitespace THEN 0 ELSE 1 + Indentation(Tail(row))
RECURSIVE TrimEnd(_)
TrimEnd(text) ==
    IF text = <<>> \/ text[Len(text)] \notin Whitespace THEN text ELSE TrimEnd(DropLast(text))
Trim(text) == TrimEnd(SubSeq(text, Indentation(text) + 1, Len(text)))

\* FileType::name of the document (src/filetype.rs, modelled from the
\* specification: the type is detected from the extension of the path)
FileTypeName(doc) == IF doc.file_name = "f.rs" THEN "Rust" ELSE "No filetype"

\* the Editor as a record of its fields
Ed == [document |-> document, cursor_position |-> cursor_position, offset |-> offset,
       mode |-> mode, versions |-> versions, version_index |-> version_index,
       has_saved |-> has_saved, clipboard |-> clipboard,
       status_message |-> status_message, term_size |-> term_size, hist |-> hist]

CursorXY(e) == [x |-> e.cursor_position.x, y |-> e.cursor_position.y]

\* (history) the checkpoint: the buffer and the cursor before an edit
NoteCheckpoint(e) ==
    [e EXCEPT !.hist.pre = [rows |-> e.document.rows, x |-> e.cursor_position.x,
                            y |-> e.cursor_position.y]]

\* (history) a version is committed; dropped counts the versions it discards
NoteCommit(e) ==
    [e EXCEPT !.hist.commits = @ + 1,
              !.hist.since = TRUE,
              !.hist.dropped = Len(e.versions) - (e.version_index + 1),
              !.hist.edit = [pre_rows |-> e.hist.pre.rows, pre_x |-> e.hist.pre.x,
                             pre_y |-> e.hist.pre.y, post_rows |-> e.document.rows]]

\* Editor::readjust_cursor
ReadjustCursor(e) ==
    LET y == Min(e.cursor_position.y, DocLen(e.document))
        x == IF HasRow(e.document, y)
             THEN Min(e.cursor_position.x, SatSub(RowLenAt(e.document, y), 1))
             ELSE 0
    IN [e EXCEPT !.cursor_position = [x |-> x, y |-> y, max_x |-> x]]

\* Editor::move_cursor: the width of row y for the mode
WidthAt(e, y) ==
    IF e.mode = "Normal" THEN SatSub(RowLenAt(e.document, y), 1) ELSE RowLenAt(e.document, y)

\* Editor::move_cursor: the match on the key
Moved(e, key) ==
    LET terminal_height == e.term_size.height
        x0 == e.cursor_position.x
        y0 == e.cursor_position.y
        m0 == e.cursor_position.max_x
        height == DocLen(e.document)
    IN CASE key = "Up" -> [x |-> x0, y |-> SatSub(y0, 1), max_x |-> m0]
         [] key = "Down" -> [x |-> x0, y |-> IF y0 < height THEN y0 + 1 ELSE y0,
                             max_x |-> m0]
         [] key = "Left" ->
               IF x0 > 0 THEN [x |-> x0 - 1, y |-> y0, max_x |-> x0 - 1]
               ELSE IF e.mode # "Normal" /\ y0 > 0
                    THEN [x |-> RowLenAt(e.document, y0 - 1), y |-> y0 - 1,
                          max_x |-> RowLenAt(e.document, y0 - 1)]
                    ELSE [x |-> x0, y |-> y0, max_x |-> x0]
         [] key = "Right" ->
               IF x0 < WidthAt(e, y0) THEN [x |-> x0 + 1, y |-> y0, max_x |-> x0 + 1]
               ELSE IF e.mode # "Normal" /\ y0 < height
                    THEN [x |-> 0, y |-> y0 + 1, max_x |-> 0]
                    ELSE [x |-> x0, y |-> y0, max_x |-> x0]
         [] key = "PageUp" ->
               [x |-> x0, y |-> IF y0 > terminal_height THEN y0 - terminal_height ELSE 0,
                max_x |-> m0]
         [] key = "PageDown" ->
               [x |-> x0, y |-> IF y0 + terminal_height < height
                                THEN y0 + terminal_height ELSE height,
                max_x |-> m0]
         [] key = "Home" -> [x |-> 0, y |-> y0, max_x |-> 0]
         [] key = "End" -> [x |-> WidthAt(e, y0), y |-> y0, max_x |-> WidthAt(e, y0)]
         [] OTHER -> [x |-> x0, y |-> y0, max_x |-> m0]

\* a faulty move_cursor: the column is not remembered, max_x follows x
ClampToWidthOfX(e, moved) ==
    [e EXCEPT !.cursor_position =
        [x |-> Min(moved.x, WidthAt(e, moved.y)), y |-> moved.y,
         max_x |-> Min(moved.x, WidthAt(e, moved.y))]]

\* Editor::move_cursor: x is max_x clamped to the width of the row reached
ClampToWidth(e, moved) ==
    [e EXCEPT !.cursor_position =
        [x |-> Min(moved.max_x, WidthAt(e, moved.y)), y |-> moved.y, max_x |-> moved.max_x]]

\* Editor::move_cursor
MoveCursor(e, key) == ClampToWidth(e, Moved(e, key))

\* Editor::scroll
Scroll(e) ==
    LET x == e.cursor_position.x
        y == e.cursor_position.y
        width == e.term_size.width
        height == e.term_size.height
        off == e.offset
        screen_x == SatSub(x, off.x)
        screen_y == SatSub(y, off.y)
        width_edge == width \div 8
        height_edge == height \div 5
        oy == IF y < off.y THEN SatSub(y, height_edge)
              ELSE IF screen_y < height_edge THEN SatSub(off.y, height_edge - screen_y)
              ELSE IF y >= off.y + height THEN SatSub(y, height) + height_edge + 1
              ELSE IF screen_y >= height - height_edge
                   THEN off.y + (screen_y - (height - height_edge))
              ELSE off.y
        ox == IF x < off.x THEN SatSub(x, width_edge)
              ELSE IF screen_x < width_edge THEN SatSub(off.x, width_edge - screen_x)
              ELSE IF x >= off.x + width THEN SatSub(x, width) + width_edge
              ELSE IF screen_x >= width - width_edge
                   THEN off.x + (screen_x - (width - width_edge))
              ELSE off.x
    IN [e EXCEPT !.offset = [x |-> ox, y |-> oy]]

\* Version { document, position } (the timestamp only words the message)
VersionOf(doc, position) == [document |-> CloneDocument(doc), position |-> position]

\* a faulty undo: the cursor of the version is not restored
UndoKeepsCursor(e) ==
    IF e.version_index = 0
    THEN [e EXCEPT !.status_message = "Already at oldest change"]
    ELSE LET index == e.version_index - 1
             version == e.versions[index + 1]
         IN ReadjustCursor([e EXCEPT !.version_index = index,
                                     !.document = CloneDocument(version.document),
                                     !.status_message = "change undone"])

\* a faulty undo: at the oldest version the cursor goes to the origin
UndoClampsAtOldest(e) ==
    IF e.version_index = 0
    THEN [e EXCEPT !.status_message = "Already at oldest change",
                   !.cursor_position = DefaultCursor]
    ELSE LET index == e.version_index - 1
             version == e.versions[index + 1]
         IN ReadjustCursor([e EXCEPT !.version_index = index,
                                     !.document = CloneDocument(version.document),
                                     !.cursor_position = version.position,
                                     !.status_message = "change undone"])

\* Editor::undo
Undo(e) ==
    IF e.version_index = 0
    THEN [e EXCEPT !.status_message = "Already at oldest change"]
    ELSE LET index == e.version_index - 1
             version == e.versions[index + 1]
         IN ReadjustCursor([e EXCEPT !.version_index = index,
                                     !.document = CloneDocument(version.document),
                                     !.cursor_position = version.position,
                                     !.status_message = "change undone"])

\* a faulty redo: the document of the version is not restored
RedoKeepsDocument(e) ==
    IF e.version_index = Len(e.versions) - 1
    THEN [e EXCEPT !.status_message = "Already at newest change"]
    ELSE LET position == e.versions[e.version_index + 1].position
             index == e.version_index + 1
         IN ReadjustCursor([e EXCEPT !.version_index = index,
                                     !.cursor_position = position,
                                     !.status_message = "change redone"])

\* a faulty redo: the stored position is not taken
RedoKeepsCursor(e) ==
    IF e.version_index = Len(e.versions) - 1
    THEN [e EXCEPT !.status_message = "Already at newest change"]
    ELSE LET index == e.version_index + 1
             version == e.versions[index + 1]
         IN ReadjustCursor([e EXCEPT !.version_index = index,
                                     !.document = CloneDocument(version.document),
                                     !.status_message = "change redone"])

\* Editor::redo: the position is that of the version that is left
Redo(e) ==
    IF e.version_index = Len(e.versions) - 1
    THEN [e EXCEPT !.status_message = "Already at newest change"]
    ELSE LET position == e.versions[e.version_index + 1].position
             index == e.version_index + 1
             version == e.versions[index + 1]
         IN ReadjustCursor([e EXCEPT !.version_index = index,
                                     !.document = CloneDocument(version.document),
                                     !.cursor_position = position,
                                     !.status_message = "change redone"])

\* a faulty add_version: the newer versions are not drained
KeptVersionsAll(e) == e.versions

\* Editor::add_version: the versions that stay (drain of the newer ones)
KeptVersions(e) ==
    IF e.version_index # Len(e.versions) - 1
    THEN SubSeq(e.versions, 1, e.version_index + 1)
    ELSE e.versions

\* Editor::add_version: the push of the clone with the position of the
\* version at version_index
PushVersion(e) ==
    [e EXCEPT !.document = CloneDocument(e.document),
              !.versions = Append(KeptVersions(e),
                                  VersionOf(e.document,
                                            KeptVersions(e)[e.version_index + 1].position)),
              !.version_index = Len(KeptVersions(e)),
              !.has_saved = FALSE]

\* Editor::add_version
AddVersion(e) == PushVersion(NoteCommit(e))

\* Editor::contains_changes
ContainsChanges(e) == Len(e.versions) # 1 /\ e.version_index # 0 /\ ~e.has_saved

\* Editor::save_prev_cursor_position
SavePrevCursorPosition(e) ==
    [NoteCheckpoint(e) EXCEPT !.versions[e.version_index + 1].position = e.cursor_position]

\* Editor::doc_edit: the checkpoint before the callback, outside Insert
DocEditCheck(e) == IF e.mode # "Insert" THEN SavePrevCursorPosition(e) ELSE e

\* a faulty doc_edit: a version is committed in Insert mode too
DocEditCommitAlways(edited) == AddVersion(edited)

\* Editor::doc_edit: the commit after the callback, outside Insert
DocEditCommit(edited) == IF edited.mode # "Insert" THEN AddVersion(edited) ELSE edited

\* Editor::doc_edit is DocEditCommit(callback(DocEditCheck(e))); the
\* callbacks are the closures of the doc_* methods.

\* Editor::doc_insert, the closure
InsertAtCursor(ed, c) == [ed EXCEPT !.document = Insert(@, CursorXY(ed), c)]

\* Editor::doc_insert
DocInsert(e, c) == DocEditCommit(InsertAtCursor(DocEditCheck(e), c))

\* Editor::doc_insert_line, the closure (line.into() is done by the caller)
InsertLineAtCursor(ed, line) ==
    [ed EXCEPT !.document = InsertLine(@, ed.cursor_position.y, line)]

\* Editor::doc_insert_line
DocInsertLine(e, line) == DocEditCommit(InsertLineAtCursor(DocEditCheck(e), line))

\* Editor::doc_paste_clipboard
DocPasteClipboard(e) ==
    IF e.clipboard.some
    THEN DocEditCommit(InsertLineAtCursor(DocEditCheck(e), RowFrom(e.clipboard.text)))
    ELSE e

\* Editor::doc_delete, the closure
DeleteAtCursor(ed) == [ed EXCEPT !.document = Delete(@, CursorXY(ed)).doc]

\* Editor::doc_delete -> [e, deleted]
DocDelete(e) ==
    [e |-> DocEditCommit(DeleteAtCursor(DocEditCheck(e))),
     deleted |-> Delete(e.document, CursorXY(e)).deleted]

\* Editor::doc_delete_line, the closure
DeleteLineAtCursor(ed) ==
    [ed EXCEPT !.document = DeleteLine(@, ed.cursor_position.y),
               !.hist.panicked = @ \/ DeleteLinePanics(ed.document, ed.cursor_position.y)]

\* Editor::doc_delete_line
DocDeleteLine(e) == DocEditCommit(DeleteLineAtCursor(DocEditCheck(e)))

\* Editor::doc_replace, the closure
ReplaceAtCursor(ed, c) == [ed EXCEPT !.document = Replace(@, CursorXY(ed), c)]

\* Editor::doc_replace
DocReplace(e, c) == DocEditCommit(ReplaceAtCursor(DocEditCheck(e), c))

\* Editor::switch_mode(Normal): one step left when the mode is left
LeaveModeLeft(e) ==
    IF e.mode # "Normal" THEN MoveCursor([e EXCEPT !.mode = "Normal"], "Left") ELSE e

\* a faulty switch_mode(Normal): the Insert session is not committed
LeaveInsertNoCommit(prev_mode, e) == e

\* Editor::switch_mode(Normal): the commit of a dirty Insert session
LeaveInsertCommit(prev_mode, e) ==
    IF prev_mode = "Insert" /\ e.document.dirty THEN AddVersion(e) ELSE e

\* a faulty switch_mode: Replace mode is not left for Normal mode
SwitchModeKeepsReplace(e, to) ==
    CASE to = "Normal" /\ e.mode = "Replace" -> e
      [] to = "Normal" /\ e.mode # "Replace" ->
            [LeaveInsertCommit(e.mode, LeaveModeLeft(e)) EXCEPT !.mode = "Normal"]
      [] to = "Insert" ->
            [(IF e.mode # "Insert" THEN NoteCheckpoint(e) ELSE e)
                EXCEPT !.versions[e.version_index + 1].position = e.cursor_position,
                       !.mode = "Insert"]
      [] OTHER -> [e EXCEPT !.mode = to]

\* Editor::switch_mode
SwitchMode(e, to) ==
    CASE to = "Normal" ->
            [LeaveInsertCommit(e.mode, LeaveModeLeft(e)) EXCEPT !.mode = "Normal"]
      [] to = "Insert" ->
            [(IF e.mode # "Insert" THEN NoteCheckpoint(e) ELSE e)
                EXCEPT !.versions[e.version_index + 1].position = e.cursor_position,
                       !.mode = "Insert"]
      [] OTHER -> [e EXCEPT !.mode = to]

\* move_cursor(key) under a condition
MoveIf(cond, e, key) == IF cond THEN MoveCursor(e, key) ELSE e

\* Editor::normal_mode, 'x' | 's': what follows the doc_delete
AfterDeleteChar(del, row_len, c) ==
    IF c = "x" /\ del.cursor_position.x = SatSub(row_len, 1)
    THEN MoveCursor(del, "Left")
    ELSE IF c = "s" THEN SwitchMode(del, "Insert")
    ELSE del

\* Editor::normal_mode, 'd' | 'y': the row, trimmed, goes to the clipboard
Yank(e) ==
    [e EXCEPT !.clipboard =
        [some |-> TRUE,
         text |-> Trim(RowContents(e.document.rows[e.cursor_position.y + 1]))]]

\* Editor::search, the callback of the prompt: after the find
SearchFound(at, found, moved) ==
    IF found.some
    THEN Scroll([at EXCEPT !.cursor_position = [x |-> found.x, y |-> found.y, max_x |-> 0]])
    ELSE MoveIf(moved, at, "Left")

\* Editor::search, the callback of the prompt, called with the key read and
\* the text entered so far
SearchCallback(e, key, query, window) ==
    SearchFound(MoveIf(key \in {"Right", "Down"}, e, "Right"),
                Find(e.document, query,
                     CursorXY(MoveIf(key \in {"Right", "Down"}, e, "Right")),
                     IF key \in {"Left", "Up"} THEN "Backward" ELSE "Forward", window),
                key \in {"Right", "Down"})

\* callback(self, key, &result): that of the search, or the empty one
PromptCallback(st, key, search, window) ==
    IF search THEN [st EXCEPT !.e = SearchCallback(st.e, key, st.result, window)] ELSE st

\* Editor::prompt, the match on one key of the loop and the callback
PromptKey(st, key, search, window) ==
    CASE key = "Backspace" ->
            IF st.result = <<>> THEN [st EXCEPT !.done = TRUE]
            ELSE PromptCallback([st EXCEPT !.result = DropLast(@)], key, search, window)
      [] key = "\n" -> [st EXCEPT !.done = TRUE]
      [] key = "Esc" -> [st EXCEPT !.result = <<>>, !.done = TRUE, !.cancelled = TRUE]
      [] key \notin SpecialKeys ->
            PromptCallback([st EXCEPT !.result = Append(@, key)], key, search, window)
      [] OTHER -> PromptCallback(st, key, search, window)

RECURSIVE RunPrompt(_, _, _, _)
\* Editor::prompt, the loop over the keys read
RunPrompt(st, keys, search, window) ==
    IF st.done \/ keys = <<>> THEN st
    ELSE RunPrompt(PromptKey(st, Head(keys), search, window), Tail(keys), search, window)

\* Editor::prompt -> [e, result, cancelled]: result <<>> is None; cancelled
\* says that the loop was left with Esc
Prompt(e, keys, search, window) ==
    RunPrompt([e |-> [e EXCEPT !.status_message = ""], result |-> <<>>, done |-> FALSE,
               cancelled |-> FALSE],
              keys, search, window)

\* (history) the prompt of this event was cancelled with Esc; at: the cursor
\* when the loop was left
NoteCancelled(p, kind) ==
    IF p.cancelled
    THEN [p.e EXCEPT !.hist.prompt = [kind |-> kind, at |-> CursorXY(p.e)]]
    ELSE p.e

\* a faulty search: the cursor is not put back when there is no query
AfterSearchKeepsCursor(old_position, p) ==
    IF p.result = <<>> THEN Scroll(NoteCancelled(p, "search")) ELSE p.e

\* Editor::search: after the prompt
AfterSearch(old_position, p) ==
    IF p.result = <<>>
    THEN Scroll([NoteCancelled(p, "search") EXCEPT !.cursor_position = old_position])
    ELSE p.e

\* Editor::search; typed.keys are the keys read by the prompt
Search(e, typed) ==
    AfterSearch(e.cursor_position, Prompt(e, typed.keys, TRUE, typed.window))

\* the graphemes of a string
Range(str) == {str[i] : i \in 1..Len(str)}

\* self.document.save() has returned: Ok(bytes_written) when cmd.save_ok
Saved(e, cmd) ==
    IF cmd.save_ok
    THEN [e EXCEPT !.document.dirty = FALSE,
                   !.has_saved = TRUE,
                   !.status_message = "File saved successfully",
                   !.hist.synced = e.document.rows,
                   !.hist.since = FALSE]
    ELSE [e EXCEPT !.status_message = "Error writing file!"]

\* Editor::save; cmd.save_as: a name was entered at the "Save as: " prompt
Save(e, cmd) ==
    IF ~ContainsChanges(e) THEN [e EXCEPT !.status_message = "No changes to write."]
    ELSE IF e.document.file_name = NoName
    THEN IF cmd.save_as THEN Saved([e EXCEPT !.document.file_name = "f"], cmd)
         ELSE [e EXCEPT !.status_message = "Save aborted.",
                        !.hist.prompt = [kind |-> "save_as", at |-> CursorXY(e)]]
    ELSE Saved(e, cmd)

\* input.split_whitespace().collect().get(1) is Some(path)
HasPath(input) ==
    /\ input # <<>> /\ input[1] # " "
    /\ \E i \in 2..Len(input) : input[i - 1] = " " /\ input[i] # " "

\* a faulty 'e': version_index is not set back to 0
OpenCommandKeepsIndex(e, cmd) ==
    IF cmd.opened.some
    THEN ReadjustCursor(
            [e EXCEPT !.document = [rows |-> cmd.opened.rows, file_name |-> "f",
                                    dirty |-> FALSE],
                      !.versions = <<VersionOf([rows |-> cmd.opened.rows,
                                                file_name |-> "f", dirty |-> FALSE],
                                               DefaultCursor)>>,
                      !.cursor_position = DefaultCursor,
                      !.hist.synced = cmd.opened.rows,
                      !.hist.since = FALSE])
    ELSE [e EXCEPT !.status_message = "ERR: Could not open file"]

\* Editor::execute_command, 'e' with a path: Self::open_document(&path)
\* gives the rows of the file (cmd.opened) or None
OpenCommand(e, cmd) ==
    IF cmd.opened.some
    THEN ReadjustCursor(
            [e EXCEPT !.document = [rows |-> cmd.opened.rows, file_name |-> "f",
                                    dirty |-> FALSE],
                      !.versions = <<VersionOf([rows |-> cmd.opened.rows,
                                                file_name |-> "f", dirty |-> FALSE],
                                               DefaultCursor)>>,
                      !.version_index = 0,
                      !.cursor_position = DefaultCursor,
                      !.hist.synced = cmd.opened.rows,
                      !.hist.since = FALSE])
    ELSE [e EXCEPT !.status_message = "ERR: Could not open file"]

\* Editor::execute_command, 'q' | 'e' | 'u'; stop: the function returns
Guarded(e, input, c, cmd) ==
    IF ContainsChanges(e) /\ "!" \notin Range(input)
    THEN [e |-> [e EXCEPT !.status_message =
                    "WARNING! File has unsaved changes: add ! to override."],
          stop |-> TRUE]
    ELSE CASE c = "q" -> [e |-> [e EXCEPT !.hist.should_quit = TRUE], stop |-> FALSE]
           [] c = "e" ->
                 IF HasPath(input) THEN [e |-> OpenCommand(e, cmd), stop |-> TRUE]
                 ELSE [e |-> [e EXCEPT !.status_message = "ERR: No path entered"],
                       stop |-> FALSE]
           [] OTHER -> [e |-> Undo(e), stop |-> FALSE]

\* Editor::execute_command: the match on one character of the input
CommandChar(e, input, c, cmd) ==
    CASE c = "w" -> [e |-> Save(e, cmd), stop |-> FALSE]
      [] c = "p" -> [e |-> [e EXCEPT !.status_message = "CWD is"], stop |-> FALSE]
      [] c = "c" ->
            IF HasPath(input)
            THEN [e |-> [e EXCEPT !.status_message =
                            IF cmd.cd_ok THEN "CWD is" ELSE "ERR: Path does not exist"],
                  stop |-> TRUE]
            ELSE [e |-> [e EXCEPT !.status_message = "ERR: No path entered"],
                  stop |-> FALSE]
      [] c \in {"q", "e", "u"} -> Guarded(e, input, c, cmd)
      [] c = "!" -> [e |-> e, stop |-> FALSE]
      [] OTHER -> [e |-> [e EXCEPT !.status_message = "Command not found"],
                   stop |-> FALSE]

RECURSIVE RunCommands(_, _, _, _)
\* Editor::execute_command: after one character, return or go on
AfterCommandChar(done, input, rest, cmd) ==
    IF done.stop THEN done.e ELSE RunCommands(done.e, input, rest, cmd)

\* Editor::execute_command: while let Some(c) = commands.next()
RunCommands(e, input, rest, cmd) ==
    IF rest = <<>> THEN e
    ELSE AfterCommandChar(CommandChar(e, input, Head(rest), cmd), input, Tail(rest), cmd)

\* Editor::execute_command, after the prompt: p.result is the input, not a
\* number nor an offset
AfterCommandPrompt(p, cmd) ==
    RunCommands([NoteCancelled(p, "command") EXCEPT !.hist.cmd = p.result],
                p.result, p.result, cmd)

\* Editor::execute_command: cmd.keys are the keys read by the ":" prompt
ExecuteCommand(e, cmd) == AfterCommandPrompt(Prompt(e, cmd.keys, FALSE, FALSE), cmd)

\* a faulty 'd': the line one past the last is deleted too
DeleteOrYankPastEnd(e, c) ==
    IF HasRow(e.document, e.cursor_position.y)
    THEN IF c = "d" THEN MoveCursor(DocDeleteLine(Yank(e)), "Home")
         ELSE Yank(e)
    ELSE IF c = "d" /\ e.cursor_position.y = DocLen(e.document)
         THEN MoveCursor(DocDeleteLine(e), "Home")
         ELSE e

\* Editor::normal_mode, 'd' | 'y': only with a row under the cursor
DeleteOrYank(e, c) ==
    IF HasRow(e.document, e.cursor_position.y)
    THEN IF c = "d" THEN MoveCursor(DocDeleteLine(Yank(e)), "Home")
         ELSE Yank(e)
    ELSE e

\* char::is_numeric and char::to_digit(10), char::is_alphabetic, for the
\* characters of the keys
DigitChars == {"0", "1", "2", "3", "4", "5", "6", "7", "8", "9"}
DigitValue(c) ==
    CASE c = "0" -> 0 [] c = "1" -> 1 [] c = "2" -> 2 [] c = "3" -> 3 [] c = "4" -> 4
      [] c = "5" -> 5 [] c = "6" -> 6 [] c = "7" -> 7 [] c = "8" -> 8 [] OTHER -> 9
Letters == {"a", "b", "c", "d", "e", "f", "g", "h", "i", "j", "k", "l", "n", "o", "p",
            "q", "r", "s", "u", "v", "w", "x", "y", "A", "G", "I", "N", "O", "R"}

\* number_message.parse() is Ok(repeats) for a number that fits the type of
\* repeats, which is i32 (the type of the range 0..repeats)
MaxRepeats == 2147483647
\* the value of a parse that is an Err
NoNumber == 0 - 1

RECURSIVE Parse(_, _)
\* str::parse::<i32> of the digits, after the number acc: each digit is
\* added with a checked multiplication and a checked addition
Parse(digits, acc) ==
    IF digits = <<>> THEN acc
    ELSE IF acc > (MaxRepeats - DigitValue(Head(digits))) \div 10 THEN NoNumber
    ELSE Parse(Tail(digits), 10 * acc + DigitValue(Head(digits)))

RECURSIVE NormalMode(_, _, _)
RECURSIVE RepeatNormal(_, _, _)
\* for _ in 0..repeats { self.normal_mode(c)? }
RepeatNormal(e, c, n) ==
    IF n = 0 THEN e
    ELSE CHOOSE r \in {RepeatNormal(once, c, n - 1) :
                          once \in {NormalMode(e, c, "Esc")}} : TRUE

\* Editor::repeat_keypress: the key that ends the digits
RepeatedKey(e, repeats, key) ==
    IF key \in Letters /\ key \notin {"r", "s"} /\ repeats # NoNumber
    THEN RepeatNormal(e, key, repeats)
    ELSE e

\* Editor::repeat_keypress(n), n the value of the digit first; typed.digits
\* are the digits read after the first one, typed.key the key read after
\* them
RepeatKeypress(e, first, typed) ==
    IF DigitValue(first) = 0 THEN e
    ELSE [RepeatedKey([e EXCEPT !.hist.repeat = [digits |-> <<first>> \o typed.digits,
                                                key |-> typed.key]],
                      Parse(typed.digits, DigitValue(first)), typed.key)
            EXCEPT !.status_message = ""]

\* Editor::normal_mode: the match on the character; next is the key that
\* 'r' reads with term_read_key_blocking, and for ':' the input of the
\* prompt with what the file system answers, for '/' the keys read by the
\* prompt, for a digit the digits and the key that follow it.  'n' and 'N'
\* are not among the keys drawn here.
NormalKey(e, c, next) ==
    CASE c \in DigitChars -> RepeatKeypress(e, c, next)
      [] c = "h" -> MoveCursor(e, "Left")
      [] c = "j" -> MoveCursor(e, "Down")
      [] c = "k" -> MoveCursor(e, "Up")
      [] c = "l" -> MoveCursor(e, "Right")
      [] c \in {"g", "G"} ->
            [e EXCEPT !.cursor_position =
                [x |-> 0, y |-> IF c = "g" THEN 0 ELSE DocLen(e.document), max_x |-> 0]]
      [] c = "a" -> MoveCursor(SwitchMode(e, "Insert"), "Right")
      [] c = "A" -> MoveCursor(SwitchMode(e, "Insert"), "End")
      [] c = "I" -> MoveCursor(SwitchMode(e, "Insert"), "Home")
      [] c = "i" -> SwitchMode(e, "Insert")
      [] c \in {"o", "O"} ->
            MoveIf(c = "O",
                   DocInsertLine(MoveIf(c = "o", SwitchMode(e, "Insert"), "Down"), <<>>),
                   "Down")
      [] c = "r" ->
            IF next \notin SpecialKeys THEN DocReplace(e, next) ELSE e
      [] c \in {"x", "s"} ->
            IF HasRow(e.document, e.cursor_position.y)
            THEN AfterDeleteChar(IF RowLenAt(e.document, e.cursor_position.y) > 0
                                 THEN DocDelete(e).e ELSE e,
                                 RowLenAt(e.document, e.cursor_position.y), c)
            ELSE e
      [] c \in {"d", "y"} -> DeleteOrYank(e, c)
      [] c = "p" ->
            IF e.clipboard.some THEN MoveCursor(DocPasteClipboard(e), "Down") ELSE e
      [] c = "R" -> SwitchMode(e, "Replace")
      [] c = "v" -> SwitchMode(e, "Visual")
      [] c = "u" -> Undo(e)
      [] c = "/" -> Search(e, next)
      [] c = ":" -> ExecuteCommand(e, next)
      [] OTHER -> e

\* Editor::normal_mode: a dirty buffer outside Insert is committed
CommitIfDirty(done) ==
    IF done.mode # "Insert" /\ done.document.dirty THEN AddVersion(done) ELSE done

\* Editor::normal_mode
NormalMode(e, c, next) == CommitIfDirty(NormalKey(e, c, next))

RECURSIVE InsertSpaces(_, _)
\* the loop of the tab: doc_insert(' ') and move right, n times
InsertSpaces(e, n) ==
    IF n = 0 THEN e ELSE InsertSpaces(MoveCursor(DocInsert(e, " "), "Right"), n - 1)

RECURSIVE MoveRightTimes(_, _)
MoveRightTimes(e, n) == IF n = 0 THEN e ELSE MoveRightTimes(MoveCursor(e, "Right"), n - 1)

\* Editor::insert_mode, '\n': the cursor moves right to the indentation of
\* its row
MoveToIndentation(moved) ==
    MoveRightTimes(moved,
        SatSub(IF HasRow(moved.document, moved.cursor_position.y)
               THEN Indentation(moved.document.rows[moved.cursor_position.y + 1])
               ELSE 0,
               moved.cursor_position.x))

\* Editor::insert_mode, an opening character: its closing character
InsertClosing(moved, c) ==
    CASE c = "(" -> DocInsert(moved, ")")
      [] c = "[" -> DocInsert(moved, "]")
      [] c = "{" -> DocInsert(moved, "}")
      [] c = "\"" \/ FileTypeName(moved.document) # "Rust" -> DocInsert(moved, c)
      [] OTHER -> moved

\* Editor::insert_mode
InsertMode(e, c) ==
    CASE c = "\t" -> InsertSpaces(e, 4 - (e.cursor_position.x % 4))
      [] c = "\n" -> MoveToIndentation(MoveCursor(DocInsert(e, c), "Right"))
      [] c \in {"(", "[", "{", "'", "\""} ->
            InsertClosing(MoveCursor(DocInsert(e, c), "Right"), c)
      [] OTHER -> MoveCursor(DocInsert(e, c), "Right")

\* Editor::replace_mode
ReplaceMode(e, c) == MoveCursor(DocReplace(e, c), "Right")

\* Editor::visual_mode: the match on the character, in Normal mode
VisualKey(normal, c) ==
    IF c \in {"h", "j", "k", "l", "c", "d", "y"}
    THEN NormalMode(normal, c, "Esc") ELSE normal

\* Editor::visual_mode
VisualMode(e, c) == SwitchMode(VisualKey(SwitchMode(e, "Normal"), c), "Visual")

\* Editor::process_keypress, Backspace in Insert mode: the cursor steps
\* back by the number of graphemes the delete removed
PullBack(del) ==
    [del.e EXCEPT !.cursor_position.x = SatSub(@, del.deleted),
                  !.cursor_position.max_x = SatSub(del.e.cursor_position.x, del.deleted)]

\* Editor::process_keypress, Backspace: after the step left
BackspaceAt(left) == IF left.mode = "Insert" THEN PullBack(DocDelete(left)) ELSE left

\* Editor::process_keypress: the match on the key
PressedKey(e, key, next) ==
    CASE key \notin SpecialKeys ->
            CASE e.mode = "Insert" -> InsertMode(e, key)
              [] e.mode = "Normal" -> NormalMode(e, key, next)
              [] e.mode = "Replace" -> ReplaceMode(e, key)
              [] OTHER -> VisualMode(e, key)
      [] key = "Esc" -> SwitchMode(e, "Normal")
      [] key = "Delete" -> DocDelete(e).e
      [] key = "Backspace" ->
            IF e.cursor_position.x > 0 \/ e.cursor_position.y > 0
            THEN BackspaceAt(MoveCursor(e, "Left"))
            ELSE e
      [] key \in {"Up", "Down", "Left", "Right", "PageUp", "PageDown", "End", "Home"} ->
            MoveCursor(e, key)
      [] key = "CtrlR" -> IF e.mode = "Normal" THEN Redo(e) ELSE e
      [] OTHER -> e

\* Editor::process_keypress
ProcessKeypress(e, key, next) == Scroll(PressedKey(e, key, next))

(***************************************************************************)
(* The editing session: Editor::default and one action per key event of    *)
(* Editor::run; every event is a whole process_keypress.                   *)
(***************************************************************************)
\* the buffers the session starts with: no file, or a file that was opened
EditorDocs == {<<>>, << <<"a">> >>, << <<"a", "b">>, <<>>, <<"b">> >>}
\* Terminal::size (the terminal less the gutter and the two bars)
TermSizes == {[width |-> 8, height |-> 5]}
\* the character keys of the session, and the keys that follow an 'r'
InputChars == {"x", "u", "R", "a", "o", "d", "v"}
NextKeys == {"b", "Esc"}
\* the other keys of the session
InputKeys == {"Esc", "CtrlR", "Right", "Delete"}

NoHist == [steps |-> 0, commits |-> 0, dropped |-> 0, trail |-> "none",
           panicked |-> FALSE,
           pre |-> [rows |-> <<>>, x |-> 0, y |-> 0],
           edit |-> [pre_rows |-> <<>>, pre_x |-> 0, pre_y |-> 0, post_rows |-> <<>>],
           post |-> [x |-> 0, y |-> 0],
           should_quit |-> FALSE, synced |-> <<>>, since |-> FALSE, cmd |-> <<>>,
           prompt |-> [kind |-> "none", at |-> [x |-> 0, y |-> 0]],
           repeat |-> [digits |-> <<>>, key |-> ""]]

\* Editor::default with Editor::open_document, for the buffers docs and the
\* terminal sizes sizes
InitWith(docs, sizes) ==
    /\ \E r \in docs :
          LET doc == IF r = <<>> THEN DefaultDocument
                     ELSE [rows |-> r, file_name |-> "f", dirty |-> FALSE]
          IN /\ document = doc
             /\ versions = <<VersionOf(doc, DefaultCursor)>>
    /\ cursor_position = DefaultCursor
    /\ offset = [x |-> 0, y |-> 0]
    /\ mode = "Normal"
    /\ version_index = 0
    /\ has_saved = FALSE
    /\ clipboard = NoClipboard
    /\ status_message = ": for commands"
    /\ term_size \in sizes
    /\ hist = [NoHist EXCEPT !.synced = document.rows]
    /\ dop = NoOp
    /\ fs = IdleFs
    /\ io = IdleIo

Init == InitWith(EditorDocs, TermSizes)

\* (history) what the event did to the version list: one commit, one step
\* back, one step forward, nothing ("undone" and "redone" become
\* "undone_kept" and "redone_kept"), or something else
TrailAfter(e, r) ==
    CASE r.hist.commits = 1 -> "committed"
      [] r.hist.commits > 1 -> "none"
      [] r.versions = e.versions /\ r.version_index + 1 = e.version_index ->
            IF e.hist.trail = "committed" THEN "undone" ELSE "none"
      [] r.versions = e.versions /\ r.version_index = e.version_index + 1 ->
            IF e.hist.trail \in {"undone", "undone_kept"} THEN "redone" ELSE "none"
      [] /\ r.versions = e.versions /\ r.version_index = e.version_index
         /\ r.document.rows = e.document.rows ->
            CASE e.hist.trail = "undone" -> "undone_kept"
              [] e.hist.trail = "redone" -> "redone_kept"
              [] OTHER -> e.hist.trail
      [] OTHER -> "none"

\* the event loop of Editor::run: one event read and processed
Event(key, next) ==
    /\ hist.steps < MaxKeys
    /\ ~hist.panicked
    /\ ~hist.should_quit
    /\ \E e \in {[Ed EXCEPT !.hist.commits = 0, !.hist.cmd = <<>>,
                            !.hist.prompt = NoHist.prompt,
                            !.hist.repeat = NoHist.repeat]} :
       \E r \in {ProcessKeypress(e, key, next)} :
          /\ document' = r.document
          /\ cursor_position' = r.cursor_position
          /\ offset' = r.offset
          /\ mode' = r.mode
          /\ versions' = r.versions
          /\ version_index' = r.version_index
          /\ has_saved' = r.has_saved
          /\ clipboard' = r.clipboard
          /\ status_message' = r.status_message
          /\ term_size' = r.term_size
          /\ hist' = [r.hist EXCEPT !.steps = @ + 1,
                                    !.trail = TrailAfter(e, r),
                                    !.post = IF r.hist.commits > 0 THEN CursorXY(r) ELSE @]
    /\ UNCHANGED <<dop, fs, io>>

\* Key::Char(c)
KeyChar ==
    \E c \in InputChars, next \in NextKeys :
        /\ c = "r" \/ next = "Esc"
        /\ Event(c, next)

\* every other key
KeyOther == \E key \in InputKeys : Event(key, "Esc")

Next == KeyChar \/ KeyOther

Spec == Init /\ [][Next]_vars

(***************************************************************************)
(* The session with more of the keys and with the mouse: one event less    *)
(* than the session above.                                                 *)
(***************************************************************************)
\* Editor::process_mouse_event, Press(Left, x, y)
PressLeft(e, x, y) ==
    ReadjustCursor([e EXCEPT !.cursor_position =
        [x |-> SatSub(IF HasRow(e.document, y) THEN SatSub(x, 5) ELSE x, 1) + e.offset.x,
         y |-> SatSub(y, 1) + e.offset.y,
         max_x |-> e.cursor_position.max_x]])

RECURSIVE InsertChars(_, _)
\* for c in content.chars() { self.doc_insert(c) }
InsertChars(e, content) ==
    IF content = <<>> THEN e ELSE InsertChars(DocInsert(e, Head(content)), Tail(content))

\* Editor::process_mouse_event, Press(Right | Middle): the text of the system
\* clipboard is inserted; when Clipboard::new or get_text gives an error
\* (content.some is FALSE) the error leaves run, and main ends in die
PressPaste(e, content) ==
    IF content.some THEN InsertChars(SwitchMode(e, "Insert"), content.text)
    ELSE [SwitchMode(e, "Insert") EXCEPT !.hist.panicked = TRUE]

\* Editor::process_mouse_event
ProcessMouseEvent(e, me) ==
    CASE me.kind = "Left" -> PressLeft(e, me.x, me.y)
      [] me.kind = "Paste" -> PressPaste(e, me.content)
      [] me.kind = "WheelDown" -> Scroll(MoveCursor(e, "Down"))
      [] me.kind = "WheelUp" -> Scroll(MoveCursor(e, "Up"))
      [] OTHER -> e

\* the character keys, the other keys and the mouse events of this session
WideChars == {"x", "d", "p", "r", "R", "a", "o", "v", "u"}
WideKeys == {"Esc", "Delete", "Backspace", "Right", "Down"}
NoContent == [some |-> FALSE, text |-> <<>>]
MouseEvents ==
    {[kind |-> "Left", x |-> c.x, y |-> c.y, content |-> NoContent] :
        c \in {[x |-> 1, y |-> 1], [x |-> 9, y |-> 4]}}
    \cup {[kind |-> "Paste", x |-> 0, y |-> 0, content |-> t] :
            t \in {NoContent, [some |-> TRUE, text |-> <<"b", "\n">>]}}
    \cup {[kind |-> k, x |-> 0, y |-> 0, content |-> NoContent] :
            k \in {"WheelUp"}}

\* the event loop of Editor::run: one mouse event read and processed
Mouse(me) ==
    /\ hist.steps < MaxKeys
    /\ ~hist.panicked
    /\ ~hist.should_quit
    /\ \E e \in {[Ed EXCEPT !.hist.commits = 0, !.hist.cmd = <<>>,
                            !.hist.prompt = NoHist.prompt,
                            !.hist.repeat = NoHist.repeat]} :
       \E r \in {ProcessMouseEvent(e, me)} :
          /\ document' = r.document
          /\ cursor_position' = r.cursor_position
          /\ offset' = r.offset
          /\ mode' = r.mode
          /\ versions' = r.versions
          /\ version_index' = r.version_index
          /\ has_saved' = r.has_saved
          /\ clipboard' = r.clipboard
          /\ status_message' = r.status_message
          /\ term_size' = r.term_size
          /\ hist' = [r.hist EXCEPT !.steps = @ + 1,
                                    !.trail = TrailAfter(e, r),
                                    !.post = IF r.hist.commits > 0 THEN CursorXY(r) ELSE @]
    /\ UNCHANGED <<dop, fs, io>>

WideChar ==
    \E c \in WideChars, next \in NextKeys :
        /\ hist.steps < MaxKeys - 1
        /\ c = "r" \/ next = "Esc"
        /\ Event(c, next)

WideOther == \E key \in WideKeys : hist.steps < MaxKeys - 1 /\ Event(key, "Esc")

WideMouse == \E me \in MouseEvents : hist.steps < MaxKeys - 1 /\ Mouse(me)

WideNext == WideChar \/ WideOther \/ WideMouse

SpecWide == Init /\ [][WideNext]_vars

(***************************************************************************)
(* The session of cursor motions, in terminals of several sizes.           *)
(***************************************************************************)
MoveDocs == {<< <<"a", "b">>, <<>>, <<"a", "b">> >>, << <<"a">>, <<"a", "b">> >>}
\* Terminal::size: a terminal narrower than eight columns and one line high,
\* and the terminal of the sessions above
MoveSizes == {[width |-> 2, height |-> 1], [width |-> 8, height |-> 5]}
MoveChars == {"a", "v", "j"}
MoveKeys == {"Up", "Down", "PageUp", "PageDown", "Right", "End", "Esc"}

MoveInit == InitWith(MoveDocs, MoveSizes)

MoveChar == \E c \in MoveChars : Event(c, "Esc")

MoveOther == \E key \in MoveKeys : Event(key, "Esc")

MoveNext == MoveChar \/ MoveOther

SpecMove == MoveInit /\ [][MoveNext]_vars

(***************************************************************************)
(* The session with the commands of the ":" prompt: edits, saves, undos    *)
(* and redos.                                                              *)
(***************************************************************************)
NoRows == [some |-> FALSE, rows |-> <<>>]
Command(input) ==
    [keys |-> Append(input, "\n"), save_ok |-> TRUE, save_as |-> TRUE, opened |-> NoRows,
     cd_ok |-> TRUE]
\* what is entered at the prompt, and what the file system answers
Commands ==
    {Command(<<"w">>), [Command(<<"w">>) EXCEPT !.save_ok = FALSE],
     [Command(<<"w">>) EXCEPT !.save_as = FALSE],
     Command(<<"q">>), Command(<<"u">>), Command(<<"q", "!">>),
     Command(<<"e", " ", "f">>),
     [Command(<<"e", " ", "f">>) EXCEPT !.opened = [some |-> TRUE, rows |-> << <<"b">> >>]]}
CmdChars == {"x", "u", "o"}
CmdKeys == {"CtrlR", "Esc"}

CmdChar == \E c \in CmdChars : Event(c, "Esc")

CmdOther == \E key \in CmdKeys : Event(key, "Esc")

CmdCommand == \E cmd \in Commands : Event(":", cmd)

CmdNext == CmdChar \/ CmdOther \/ CmdCommand

SpecCmd == Init /\ [][CmdNext]_vars

(***************************************************************************)
(* The session with the prompts: the search, the command line and the      *)
(* "Save as: " of a buffer that has no name, with the keys typed into them.*)
(***************************************************************************)
\* the keys read by the search prompt, and the reading of Row::find
TypedSearch(keys) == {[keys |-> keys, window |-> w] : w \in BOOLEAN}
Searches ==
    TypedSearch(<<"Esc">>) \cup TypedSearch(<<"b", "Esc">>)
    \cup TypedSearch(<<"b", "Right", "Esc">>) \cup TypedSearch(<<"b", "Left", "Esc">>)
    \cup TypedSearch(<<"b", "Backspace", "Backspace">>) \cup TypedSearch(<<"b", "\n">>)
\* the keys read by the ":" prompt, and by the "Save as: " prompt (save_as)
TypedCommands ==
    {[Command(<<>>) EXCEPT !.keys = <<"Esc">>],
     [Command(<<>>) EXCEPT !.keys = <<"w", "q", "Esc">>],
     [Command(<<>>) EXCEPT !.keys = <<"w", "Backspace", "q", "!", "\n">>],
     Command(<<"w">>), [Command(<<"w">>) EXCEPT !.save_as = FALSE]}
PromptChars == {"x", "o"}
PromptKeys == {"Esc", "Right", "Down"}

PromptChar == \E c \in PromptChars : Event(c, "Esc")

PromptOther == \E key \in PromptKeys : Event(key, "Esc")

PromptSearch == \E typed \in Searches : Event("/", typed)

PromptCommand == \E cmd \in TypedCommands : Event(":", cmd)

PromptNext == PromptChar \/ PromptOther \/ PromptSearch \/ PromptCommand

SpecPrompt == Init /\ [][PromptNext]_vars

(***************************************************************************)
(* The session with repeat counts: a digit, the digits after it and the    *)
(* key that ends them are one key event of Normal mode.                    *)
(***************************************************************************)
\* a count typed as its first digit and the digits after it
Typed(first, digits, key) == [first |-> first, digits |-> digits, key |-> key]
\* the keys that end a count: commands, r and s, keys that are no letters
RepeatEnds == {"x", "d", "o", "p", "r", "s", ":", "Esc"}
\* a count that does not fit 32 bits, and the commands drawn after it
LongCount == <<"0", "0", "0", "0", "0", "0", "0", "0", "0">>
LongEnds == {"x", "j"}
Counts ==
    {Typed("0", <<>>, "x")}
    \cup {Typed("2", digits, key) : digits \in {<<>>, <<"1">>}, key \in RepeatEnds}
    \cup {Typed("3", LongCount, key) : key \in LongEnds}
RepeatChars == {"a", "o", "d"}
RepeatKeys == {"Esc", "Right"}

RepeatChar == \E c \in RepeatChars : Event(c, "Esc")

RepeatOther == \E key \in RepeatKeys : Event(key, "Esc")

RepeatCount ==
    \E typed \in Counts :
        Event(typed.first, [digits |-> typed.digits, key |-> typed.key])

RepeatNext == RepeatChar \/ RepeatOther \/ RepeatCount

SpecRepeat == Init /\ [][RepeatNext]_vars

(***************************************************************************)
(* The session of typing: lines are opened, characters typed in Insert     *)
(* mode and taken back with Backspace.                                     *)
(***************************************************************************)
TypeChars == {"o", "O", "a", "b"}
TypeKeys == {"Esc", "Backspace", "Right", "Down"}

TypeChar == \E c \in TypeChars : Event(c, "Esc")

TypeOther == \E key \in TypeKeys : Event(key, "Esc")

TypeNext == TypeChar \/ TypeOther

SpecType == Init /\ [][TypeNext]_vars

(***************************************************************************)
(* The session with Visual mode: lines are deleted with d, alone, under a  *)
(* repeat count and from Visual mode, and keys are typed in Visual mode.   *)
(***************************************************************************)
\* the buffers of the session: those above and one with longer lines
VisualDocs == EditorDocs \cup {<< <<"a", "b", "a">>, <<"a", "b">> >>}
VisualChars == {"v", "d", "x", "l", "j"}
VisualKeys == {"Esc"}
LineCounts == {Typed("2", <<>>, "d"), Typed("3", <<>>, "d")}

VisualChar == \E c \in VisualChars : Event(c, "Esc")

VisualOther == \E key \in VisualKeys : Event(key, "Esc")

VisualCount ==
    \E typed \in LineCounts :
        Event(typed.first, [digits |-> typed.digits, key |-> typed.key])

VisualNext == VisualChar \/ VisualOther \/ VisualCount

VisualInit == InitWith(VisualDocs, TermSizes)

SpecVisual == VisualInit /\ [][VisualNext]_vars

(***************************************************************************)
(* Undo and redo over the version list.  hist.trail is "committed" after   *)
(* an event that commits one version, "undone" right after one step back   *)
(* from there and "redone" right after one step forward again; events that *)
(* leave the buffer and the version list as they are come between these    *)
(* (after them the trail reads "undone_kept", "redone_kept").  hist.edit   *)
(* holds the checkpoint of the committed edit (the buffer and the cursor   *)
(* when the edit began), hist.post the cursor at the end of the committing *)
(* event.                                                                  *)
(***************************************************************************)
CheckpointCursor == [x |-> hist.edit.pre_x, y |-> hist.edit.pre_y]

\* Editor::readjust_cursor applied to the checkpoint over the present buffer
CheckpointClamped ==
    LET y == Min(hist.edit.pre_y, Len(document.rows))
    IN [x |-> IF y < Len(document.rows)
              THEN Min(hist.edit.pre_x, SatSub(Len(document.rows[y + 1]), 1))
              ELSE 0,
        y |-> y]

C2_RedoRestoresContent ==
    hist.trail \in {"redone", "redone_kept"} => document.rows = hist.edit.post_rows

\* an edit that changed the buffer has been undone and redone
C2_Witness ==
    /\ hist.trail = "redone"
    /\ hist.edit.pre_rows # hist.edit.post_rows
    /\ status_message = "change redone"

\* C3 as stated: after a committed edit, one undo and one redo, the cursor
\* (x, y) is where it was right after the edit was committed.
C3_RedoRestoresPostCursor ==
    hist.trail = "redone" => CursorXY(Ed) = hist.post

\* C3 amended: after a committed edit, one undo and one redo, the cursor
\* (x, y) is the checkpoint taken before the edit, clamped to the redone
\* buffer.
C3_RedoPutsCheckpointCursor ==
    hist.trail = "redone" => CursorXY(Ed) = CheckpointClamped

\* an edit whose cursor ended away from its checkpoint has been redone
C3_Witness ==
    /\ hist.trail = "redone"
    /\ hist.post # CheckpointCursor
    /\ version_index = Len(versions) - 1

\* the documents of a version list
VersionDocuments(vs) == [i \in 1..Len(vs) |-> vs[i].document]

\* C4: history is linear with truncate-on-divergence.  An event that commits
\* a version keeps exactly the versions up to version_index and appends the
\* buffer, so version_index is the last index and redo reports nothing
\* newer; an event that commits nothing (undo and redo among them) leaves
\* the documents of the version list as they are, and when it moves
\* version_index the buffer is the document of the version it moved to.
C4_LinearHistory ==
    [][/\ hist'.commits = 1 =>
            /\ VersionDocuments(versions') =
                  Append(SubSeq(VersionDocuments(versions), 1, version_index + 1),
                         CloneDocument(document'))
            /\ version_index' = Len(versions') - 1
            /\ Redo(Ed)' = [Ed EXCEPT !.status_message = "Already at newest change"]'
       /\ hist'.commits = 0 =>
            /\ VersionDocuments(versions') = VersionDocuments(versions)
            /\ version_index' # version_index =>
                  /\ version_index' \in {version_index - 1, version_index + 1}
                  /\ document' = versions[version_index' + 1].document]_vars

\* a commit after an undo has discarded a version
C4_Witness ==
    /\ hist.commits = 1
    /\ hist.dropped > 0
    /\ version_index = Len(versions) - 1

\* C5: undo at the oldest version and redo at the newest version only set
\* the status message.
C5_UndoRedoAtEnds ==
    /\ version_index = 0 =>
          Undo(Ed) = [Ed EXCEPT !.status_message = "Already at oldest change"]
    /\ version_index = Len(versions) - 1 =>
          Redo(Ed) = [Ed EXCEPT !.status_message = "Already at newest change"]

\* undo has been asked for at the oldest of several versions, the cursor
\* away from the origin
C5_Witness ==
    /\ version_index = 0
    /\ Len(versions) > 1
    /\ status_message = "Already at oldest change"
    /\ cursor_position.x > 0

\* the Editor after the processing of key, from the present state
AfterKey(key) ==
    ProcessKeypress([Ed EXCEPT !.hist.commits = 0, !.hist.cmd = <<>>,
                                !.hist.prompt = NoHist.prompt,
                            !.hist.repeat = NoHist.repeat], key, "Esc")

\* this step is the processing of the Esc key event
EscStep ==
    /\ hist'.steps = hist.steps + 1
    /\ document' = AfterKey("Esc").document
    /\ cursor_position' = AfterKey("Esc").cursor_position
    /\ offset' = AfterKey("Esc").offset
    /\ mode' = AfterKey("Esc").mode
    /\ versions' = AfterKey("Esc").versions
    /\ version_index' = AfterKey("Esc").version_index
    /\ hist'.commits = AfterKey("Esc").hist.commits

\* C15: after an Esc key event is processed, in each of the modes Normal,
\* Insert, Replace and Visual, the mode is Normal.
C15_EscGivesNormal == [][EscStep => mode' = "Normal"]_vars

\* Normal mode after the Esc that ended an Insert session in which one
\* grapheme was typed into a line
C15_Witness ==
    /\ mode = "Normal"
    /\ hist.commits = 1
    /\ Len(hist.edit.post_rows) = Len(hist.edit.pre_rows)
    /\ \E i \in 1..Len(hist.edit.pre_rows) :
          Len(hist.edit.post_rows[i]) = Len(hist.edit.pre_rows[i]) + 1
    /\ hist.post.x = hist.edit.pre_x + 1

\* the step is an undo or a redo: the versions stay, the index moves
HistoryMove == versions' = versions /\ version_index' # version_index

\* the step committed one version, of the buffer as it is after the step
OneVersionAdded ==
    /\ hist'.commits = 1
    /\ version_index' = Len(versions') - 1
    /\ Len(versions') = version_index + 2
    /\ versions'[Len(versions')].document.rows = document'.rows

\* C16: no key event handled in Insert mode that stays in Insert mode adds a
\* version; leaving Insert mode after the buffer was changed adds exactly one
\* version, for the whole session; a command that changes the buffer while
\* the mode is not Insert adds exactly one version at once.
C16_CommitGranularity ==
    [][(hist'.steps = hist.steps + 1 /\ ~hist'.panicked) =>
         /\ (mode = "Insert" /\ mode' = "Insert") =>
               /\ hist'.commits = 0
               /\ Len(versions') = Len(versions) /\ version_index' = version_index
         /\ (mode = "Insert" /\ mode' # "Insert") =>
               /\ hist'.commits <= 1
               /\ document.rows # versions[version_index + 1].document.rows
                     => OneVersionAdded
         /\ (mode # "Insert" /\ mode' # "Insert" /\ document'.rows # document.rows) =>
               (OneVersionAdded \/ (HistoryMove /\ hist'.commits = 0))]_vars

\* an Insert session of two key events that changed the buffer was ended:
\* one version more than before the session
C16_Witness ==
    /\ mode = "Normal"
    /\ hist.commits = 1
    /\ hist.steps >= 4
    /\ Len(versions) = 2
    /\ \E i \in 1..Len(hist.edit.pre_rows) :
          /\ i <= Len(hist.edit.post_rows)
          /\ Len(hist.edit.post_rows[i]) = Len(hist.edit.pre_rows[i]) + 2

\* C17: when a key event has been processed and the mode is Normal or
\* Replace and the cursor is in a line that is not empty, the cursor is on a
\* grapheme of the line: cursor.x <= length - 1.
C17_CursorOnGrapheme ==
    (/\ ~hist.panicked
     /\ mode \in {"Normal", "Replace"}
     /\ RowLenAt(document, cursor_position.y) > 0)
       => cursor_position.x <= RowLenAt(document, cursor_position.y) - 1

\* C18: after every key or mouse event, in every mode, the cursor is in the
\* buffer: cursor.y <= number of lines and cursor.x <= length of the line
\* cursor.y (0 when cursor.y is the number of lines).
C18_CursorInBuffer ==
    ~hist.panicked =>
       /\ cursor_position.y <= DocLen(document)
       /\ cursor_position.x <= RowLenAt(document, cursor_position.y)

\* the buffer has unsaved changes: it is not what was last loaded from or
\* written to the file
Unsaved == document.rows # hist.synced

\* C19: when the buffer has unsaved changes, the commands q, e and u entered
\* without '!' are refused with a warning: the editor does not quit, the
\* buffer is not replaced and no undo is made; after any edits, saves, undos
\* and redos.
C19_UnsavedGuard ==
    [][(/\ hist'.steps = hist.steps + 1
        /\ hist'.cmd \in {<<"q">>, <<"u">>, <<"e", " ", "f">>}
        /\ Unsaved)
          => /\ ~hist'.should_quit
             /\ document' = document
             /\ version_index' = version_index
             /\ status_message' = "WARNING! File has unsaved changes: add ! to override."]_vars

\* C20: when the buffer is not what was last loaded or written, w writes it
\* and does not report 'No changes to write.'; when no edit was committed
\* since the last save that succeeded or the load, w writes nothing.
C20_WriteWhenChanged ==
    [][(hist'.steps = hist.steps + 1 /\ hist'.cmd = <<"w">>)
          => /\ Unsaved => status_message' \in {"File saved successfully",
                                                "Error writing file!", "Save aborted."}
             /\ ~hist.since => /\ status_message' = "No changes to write."
                               /\ hist'.synced = hist.synced]_vars

\* this step is the processing of the key event key
KeyStep(key) ==
    /\ hist'.steps = hist.steps + 1
    /\ document' = AfterKey(key).document
    /\ cursor_position' = AfterKey(key).cursor_position
    /\ offset' = AfterKey(key).offset
    /\ mode' = AfterKey(key).mode
    /\ versions' = AfterKey(key).versions
    /\ version_index' = AfterKey(key).version_index
    /\ hist'.commits = AfterKey(key).hist.commits

\* the greatest column the cursor rests at in line y of the buffer after
\* the step, for the mode after the step
RestingWidth ==
    IF mode' = "Normal"
    THEN SatSub(RowLenAt(document', cursor_position'.y), 1)
    ELSE RowLenAt(document', cursor_position'.y)

C26_CursorVisible ==
    (hist.steps > 0 /\ term_size.width >= 1 /\ term_size.height >= 1) =>
       /\ offset.x <= cursor_position.x
       /\ cursor_position.x < offset.x + term_size.width
       /\ offset.y <= cursor_position.y
       /\ cursor_position.y < offset.y + term_size.height

\* the cursor is on a line of the buffer; CursorRow is that line
OnLine == HasRow(document, cursor_position.y)
CursorRow == document.rows[cursor_position.y + 1]

\* the lines other than the cursor's line are as they were
OtherRowsKept ==
    /\ Len(document'.rows) = Len(document.rows)
    /\ \A i \in 1..Len(document.rows) :
          i # cursor_position.y + 1 => document'.rows[i] = document.rows[i]

\* this step is the processing of 'r' followed by the character b
ReplaceCharStep ==
    /\ hist'.steps = hist.steps + 1
    /\ \E r \in {ProcessKeypress([Ed EXCEPT !.hist.commits = 0, !.hist.cmd = <<>>,
                                      !.hist.prompt = NoHist.prompt,
                            !.hist.repeat = NoHist.repeat], "r", "b")} :
          /\ document' = r.document
          /\ cursor_position' = r.cursor_position
          /\ mode' = r.mode
          /\ versions' = r.versions
          /\ version_index' = r.version_index
          /\ hist'.commits = r.hist.commits

\* this step is a replace: 'r' and a character in Normal mode, or a
\* character typed in Replace mode
ReplaceStep ==
    \/ mode = "Normal" /\ ReplaceCharStep
    \/ mode = "Replace" /\ \E c \in {"x", "d", "p"} : KeyStep(c)

\* C23: every replace the editor performs (Normal-mode r followed by a
\* printable character, or a printable character typed in Replace mode) at a
\* cursor position on an existing line leaves the number of lines and the
\* length of the line unchanged and changes only the grapheme at the cursor;
\* lines are never merged by a replace.
C23_ReplaceSubstitutes ==
    [][(ReplaceStep /\ OnLine) =>
          /\ OtherRowsKept
          /\ Len(document'.rows[cursor_position.y + 1]) = Len(CursorRow)
          /\ \A i \in 1..Len(CursorRow) :
                i # cursor_position.x + 1 =>
                   document'.rows[cursor_position.y + 1][i] = CursorRow[i]]_vars

\* C24: with a non-empty clipboard register and the cursor on line y, after
\* p the clipboard text is a new line at index y+1, the line that was at
\* index y is still at index y, and the line count has grown by one.
C24_PasteBelow ==
    [][(/\ mode = "Normal" /\ KeyStep("p")
        /\ clipboard.some /\ clipboard.text # <<>> /\ OnLine) =>
          /\ Len(document'.rows) = Len(document.rows) + 1
          /\ document'.rows[cursor_position.y + 2] = clipboard.text
          /\ document'.rows[cursor_position.y + 1] = CursorRow]_vars

\* C28: in Normal mode, after any reachable sequence of key events, x on a
\* non-empty row removes exactly one grapheme from the cursor's row and never
\* changes the number of lines (it never joins the next line); on an empty
\* row or on the one-past-last line it changes neither the buffer nor the
\* versions list.
C28_XDeletesOneGrapheme ==
    [][(mode = "Normal" /\ KeyStep("x")) =>
          IF OnLine /\ Len(CursorRow) > 0
          THEN /\ OtherRowsKept
               /\ Len(document'.rows[cursor_position.y + 1]) = Len(CursorRow) - 1
          ELSE /\ document'.rows = document.rows
               /\ versions' = versions]_vars

RECURSIVE Clipped(_, _)
\* the number the digits write, or MaxRepeats when that is less
Clipped(digits, acc) ==
    IF digits = <<>> THEN acc
    ELSE IF acc > (MaxRepeats - DigitValue(Head(digits))) \div 10 THEN MaxRepeats
    ELSE Clipped(Tail(digits), 10 * acc + DigitValue(Head(digits)))

RECURSIVE Times(_, _, _)
\* the Normal-mode handler of c applied n times to e: an application that
\* changes nothing is the last one that needs computing, and so the result
\* for a count above MaxRepeats is the one for MaxRepeats when the handler
\* comes to change nothing before that
Times(e, c, n) ==
    IF n = 0 THEN e
    ELSE CHOOSE r \in {IF once = e THEN e ELSE Times(once, c, n - 1) :
                          once \in {NormalMode(e, c, "Esc")}} : TRUE

\* the editor before the step, as the handler of the key event receives it
BeforeStep ==
    [Ed EXCEPT !.hist.commits = 0, !.hist.cmd = <<>>,
               !.hist.prompt = NoHist.prompt,
               !.hist.repeat = NoHist.repeat]

\* the buffer, the cursor and the versions after the step are those of e
LeftAs(e) ==
    /\ document'.rows = e.document.rows
    /\ cursor_position' = e.cursor_position
    /\ versions' = e.versions
    /\ version_index' = e.version_index

\* C27: in Normal mode, digits that form a number N >= 1 followed by a
\* letter c other than r and s apply the Normal-mode handler of c exactly N
\* times; followed by r, s or a key that is neither letter nor digit they
\* apply no command and leave the buffer, the cursor and the versions as
\* they were.
C27_RepeatCount ==
    [][(hist'.steps = hist.steps + 1 /\ mode = "Normal" /\ hist'.repeat.digits # <<>>) =>
          IF hist'.repeat.key \in Letters \ {"r", "s"}
          THEN LeftAs(CommitIfDirty(Times(BeforeStep, hist'.repeat.key,
                                          Clipped(hist'.repeat.digits, 0))))
          ELSE LeftAs(Ed)]_vars

\* after the step the buffer has one line more, an empty one at index at,
\* the cursor is at its start and the mode is Insert
OpenedAt(at) ==
    /\ mode' = "Insert"
    /\ Len(document'.rows) = Len(document.rows) + 1
    /\ document'.rows[at + 1] = <<>>
    /\ cursor_position'.y = at
    /\ cursor_position'.x = 0

\* C31: after o (respectively O) typed in Normal mode with the cursor on
\* line y, the mode is Insert, a new empty line is at index y+1
\* (respectively y), the line count has grown by one, and the cursor is on
\* that new line with x = 0.
C31_OpenLinePutsCursor ==
    [][(mode = "Normal" /\ OnLine) =>
          /\ KeyStep("o") => OpenedAt(cursor_position.y + 1)
          /\ KeyStep("O") => OpenedAt(cursor_position.y)]_vars

\* the cursor after the step is at (x, y)
CursorAt(x, y) == cursor_position'.x = x /\ cursor_position'.y = y

\* C32: Backspace in Insert mode with the cursor at (x, y): for x > 0 it
\* removes the single grapheme at x-1 and leaves the cursor at (x-1, y); for
\* x = 0 and y > 0 it joins line y onto line y-1 and leaves the cursor at
\* (old length of line y-1, y-1); at (0, 0) it changes nothing.
C32_BackspaceRemovesBefore ==
    [][(mode = "Insert" /\ KeyStep("Backspace")) =>
          CASE cursor_position.x > 0 ->
                  /\ document'.rows =
                        [document.rows EXCEPT ![cursor_position.y + 1] =
                            RemoveAt(@, cursor_position.x - 1)]
                  /\ CursorAt(cursor_position.x - 1, cursor_position.y)
            [] cursor_position.x = 0 /\ cursor_position.y > 0 ->
                  /\ document'.rows =
                        IF OnLine
                        THEN RemoveAt([document.rows EXCEPT ![cursor_position.y] =
                                           @ \o CursorRow], cursor_position.y)
                        ELSE document.rows
                  /\ CursorAt(Len(document.rows[cursor_position.y]),
                              cursor_position.y - 1)
            [] OTHER ->
                  /\ document'.rows = document.rows
                  /\ CursorAt(0, 0)]_vars

\* C33: after every sequence of key events and commands (e among them) the
\* version list is not empty and version_index is the index of one of its
\* versions.
C33_VersionsWellFormed ==
    /\ Len(versions) >= 1
    /\ version_index \in 0..(Len(versions) - 1)

\* a file has been opened with e over a buffer that had several versions
\* and was saved
C33_Witness ==
    /\ hist.cmd = <<"e", " ", "f">>
    /\ has_saved
    /\ hist.steps >= 3
    /\ Len(versions) = 1
    /\ document.rows = << <<"b">> >>

\* C34: whenever an event has been processed and the mode is not Insert,
\* the content of the buffer is the content of the document of
\* versions[version_index], and the buffer is not dirty.
C34_CommittedOutsideInsert ==
    (mode # "Insert" /\ ~hist.panicked) =>
        /\ document.rows = versions[version_index + 1].document.rows
        /\ ~document.dirty

\* outside Insert mode, the buffer is a version that differs from the one
\* before it
C34_Witness ==
    /\ mode # "Insert"
    /\ version_index >= 1
    /\ document.rows = versions[version_index + 1].document.rows
    /\ document.rows # versions[version_index].document.rows

\* C35: when the Delete key changes nothing in the buffer, the version list
\* and version_index are as they were and contains_changes keeps its value.
C35_NoOpDeleteCommitsNothing ==
    [][(KeyStep("Delete") /\ document'.rows = document.rows) =>
          /\ versions' = versions
          /\ version_index' = version_index
          /\ ContainsChanges(Ed)' = ContainsChanges(Ed)]_vars

\* C36: for every sequence of key events (repeat counts and the keys of
\* Visual mode among them) Document::delete_line is only called with y less
\* than the number of lines: the splice y..=y never leaves the rows.
C36_DeleteLineInRange == ~hist.panicked

\* d under a repeat count has emptied the buffer: the calls that were left
\* found no line under the cursor
C36_Witness ==
    /\ hist.repeat.key = "d"
    /\ clipboard.some
    /\ document.rows = <<>>
    /\ cursor_position.y = 0

\* the cursor after the key c typed in Normal mode at the present cursor
NormalCursorAfter(c) ==
    CursorXY(ProcessKeypress([BeforeStep EXCEPT !.mode = "Normal"], c, "Esc"))

\* C37: a character key typed in Visual mode that is not one of h, j, k, l,
\* c, d, y leaves the cursor, the buffer and the version list as they were,
\* and the mode is Visual afterwards; a delegated motion key moves the
\* cursor as the same key does in Normal mode.
C37_VisualDelegatesOnly ==
    [][mode = "Visual" =>
          /\ \A c \in {"x", "v"} :
                KeyStep(c) => /\ CursorXY(Ed)' = CursorXY(Ed)
                              /\ document' = document
                              /\ versions' = versions
                              /\ mode' = "Visual"
          /\ \A c \in {"l", "j"} :
                KeyStep(c) => CursorXY(Ed)' = NormalCursorAfter(c)]_vars

=============================================================================
